---- MODULE Spec2Model ----
(***************************************************************************)
(* Dataset preparation core of ai-toolkit (toolkit/dataloader_mixins.py):  *)
(* bucket assignment, point-of-interest cropping, mask loading and the     *)
(* latent cache.                                                           *)
(*                                                                         *)
(* Arithmetic.  The Python code computes scale factors as doubles          *)
(* (bucket / size) and then takes int() or math.ceil() of a product.  The  *)
(* model keeps a factor as an exact fraction <<num, den>> and computes     *)
(* floor / ceil of the exact product.  For operands up to 16, as used      *)
(* here, math.ceil(x * (b / a)) equals the exact ceiling for every x, a, b *)
(* and int(x * (b / a)) equals the exact floor for every operand the model *)
(* draws, so both computations give the same integers.                     *)
(***************************************************************************)
EXTENDS Integers, Sequences, FiniteSets, TLC

VARIABLES
    dataset_config,   \* DatasetConfig of the dataset (shared by its items)
    file_list,        \* AiToolkitDataset.file_list : Seq(FileItemDTO)
    buckets,          \* BucketsMixin.buckets, in dict insertion order
    batch_indices,    \* BucketsMixin.batch_indices
    epoch_num,        \* AiToolkitDataset.epoch_num
    sb,               \* frame of the running setup_buckets call
    poi,              \* frame of the running setup_poi_bucket call
    sd,               \* the StableDiffusion model the dataset was given
    disk,             \* the artifacts in the _latent_cache folders
    cp,               \* frame of the running cache_latents_all_latents call
    calls,            \* the item each call so far was made for : encoder,
                      \* save_file, Image.open
    peer              \* frame of the cache_latents_all_latents call of a
                      \* second process over the same dataset folder

cache_vars == <<sd, disk, cp, calls, peer>>

vars == <<dataset_config, file_list, buckets, batch_indices, epoch_num, sb, poi,
          sd, disk, cp, calls, peer>>

----------------------------------------------------------------------------
(* Bounds of the model *)

NumItems == 2        \* longest file_list of mixed items
MaxList == 3         \* longest file_list of items without mask
MaxDim == 4          \* largest natural width / height of an image
MaxBatch == 2        \* largest batch_size
MaxEpoch == 1        \* epochs the caller runs
MaxRegion == 2       \* longest side of a region of interest in the caption json
NumCached == 2       \* longest file_list of a dataset that caches latents
MaxSample == 2       \* outcomes of one draw of the encoder's latent distribution
MaxAug == 2          \* longest augmentation spec of a dataset config
MaxParam == 2        \* parameter values one augmentation step can draw

(* Program constants *)

MaxLoops == 100      \* num_loops > 100 gives up the point-of-interest search

----------------------------------------------------------------------------
(* Integer helpers *)

Abs(a) == IF a < 0 THEN -a ELSE a

Min(a, b) == IF a < b THEN a ELSE b

\* Python int(a / b) for b > 0 : truncation toward zero
IntDiv(a, b) == IF a >= 0 THEN a \div b ELSE -((-a) \div b)

\* Python math.ceil(a / b) for b > 0
CeilDiv(a, b) == -((-a) \div b)

\* int(num_pixels ** 0.5)
ISqrt(n) == CHOOSE r \in 0..n : r * r <= n /\ (r + 1) * (r + 1) > n

Range(s) == {s[k] : k \in 1..Len(s)}

----------------------------------------------------------------------------
(* toolkit/buckets.py : the bucket lookup *)

\* get_resolution(width, height) : side of the square with as many pixels
get_resolution(width, height) == ISqrt(width * height)

\* the resolutions a lookup may return : both sides positive multiples of
\* divisibility, within the pixel budget of resolution x resolution
BucketSizes(resolution, divisibility) ==
    LET sides == {k * divisibility : k \in 1..(resolution * resolution)}
    IN  {b \in [width : sides, height : sides] :
            b.width * b.height <= resolution * resolution}

\* |b.width / b.height - width / height| <= |c.width / c.height - width / height|
AspectNoWorse(b, c, width, height) ==
    Abs(b.width * height - b.height * width) * c.height
        <= Abs(c.width * height - c.height * width) * b.height

\* get_bucket_for_image_size(width, height, resolution=, divisibility=) :
\* the best fits, closest aspect ratio first, then nearest the pixel budget
get_bucket_for_image_size(width, height, resolution, divisibility) ==
    LET all == BucketSizes(resolution, divisibility)
        closest == {b \in all : \A c \in all : AspectNoWorse(b, c, width, height)}
    IN  {b \in closest :
            \A c \in closest : c.width * c.height <= b.width * b.height}

----------------------------------------------------------------------------
(* Scale factors, kept as exact fractions <<num, den>> *)

\* int(v * dataset_config.scale)
ScaleInt(v, scale) == IntDiv(v * scale[1], scale[2])

\* the smaller of the two factors instead of the larger
min_scale_factor(bucket, width, height) ==
    IF bucket.width * height >= bucket.height * width
    THEN <<bucket.height, height>>
    ELSE <<bucket.width, width>>

\* max(bucket["width"] / width, bucket["height"] / height)
max_scale_factor(bucket, width, height) ==
    IF bucket.width * height >= bucket.height * width
    THEN <<bucket.width, width>>
    ELSE <<bucket.height, height>>

\* int(math.ceil(v * factor))
CeilScale(v, factor) == CeilDiv(v * factor[1], factor[2])

\* int(v * factor)
FloorScale(v, factor) == IntDiv(v * factor[1], factor[2])

----------------------------------------------------------------------------
(* Item construction *)

\* None for a latent tensor and for a cache path
NoLatent == [pixels |-> <<>>, sample |-> 0]

NoPath == [dir |-> <<>>, name |-> <<>>]

\* None for an image tensor.  An image is the file it was read from, its
\* mode, the geometry it was flipped, resized and cropped by, and the steps
\* applied to it after that, in order
NoImage == [source |-> <<>>, mode |-> "", geometry |-> <<>>, steps |-> <<>>]

\* None for aug_replay_spatial_transforms
NoReplay == [is_none |-> TRUE, transforms |-> <<>>]

\* PoiFileItemDTOMixin.__init__ : the region read from the caption json,
\* mirrored when the item is a flipped copy
PoiInit(width, height, json_poi, flip_x, flip_y) ==
    [poi_x |-> IF flip_x THEN width - json_poi.x - json_poi.width ELSE json_poi.x,
     poi_y |-> IF flip_y THEN height - json_poi.y - json_poi.height ELSE json_poi.y,
     poi_width |-> json_poi.width,
     poi_height |-> json_poi.height]

\* an entry of dataset_config.augmentations : the method name, and the name
\* X of a parameter "cv2.X" ("" when the entry has no such parameter)
Aug(method, enum) == [method |-> method, enum |-> enum]

\* the method names of an augmentation spec, in its order
Methods(augmentations) == [k \in 1..Len(augmentations) |-> augmentations[k].method]

\* FileItemDTO(...) : the record after all mixin constructors have run
FileItemDTO(cfg, path, size, json_poi, flip_x, flip_y, mask_size) ==
    LET p == PoiInit(size[1], size[2], json_poi, flip_x, flip_y)
    IN  [path |-> path,
         width |-> size[1],
         height |-> size[2],
         flip_x |-> flip_x,
         flip_y |-> flip_y,
         scale_to_width |-> ScaleInt(size[1], cfg.scale),
         scale_to_height |-> ScaleInt(size[2], cfg.scale),
         crop_x |-> 0,
         crop_y |-> 0,
         crop_width |-> ScaleInt(size[1], cfg.scale),
         crop_height |-> ScaleInt(size[2], cfg.scale),
         has_point_of_interest |-> cfg.poi,
         json_poi |-> json_poi,
         poi_x |-> p.poi_x,
         poi_y |-> p.poi_y,
         poi_width |-> p.poi_width,
         poi_height |-> p.poi_height,
         has_mask_image |-> mask_size # <<0, 0>>,
         mask_size |-> mask_size,
         mask_tensor |-> NoImage,
         tensor |-> NoImage,
         has_control_image |-> FALSE,
         control_size |-> <<0, 0>>,
         control_tensor |-> NoImage,
         has_unconditional |-> FALSE,
         unconditional_size |-> <<0, 0>>,
         unconditional_tensor |-> NoImage,
         has_augmentations |-> Len(cfg.augmentations) > 0,
         aug_transform |-> Methods(cfg.augmentations),
         aug_replay_spatial_transforms |-> NoReplay,
         unaugmented_tensor |-> NoImage,
         _encoded_latent |-> NoLatent,
         _latent_path |-> NoPath,
         is_latent_cached |-> FALSE,
         is_caching_to_disk |-> FALSE,
         is_caching_to_memory |-> FALSE,
         latent_space_version |-> "sd1",
         latent_version |-> 1]

----------------------------------------------------------------------------
(* Initial states : the dataset after construction *)

\* (resolution, bucket_tolerance, scale) of the dataset configs drawn
GeometryConfigs ==
    {[resolution |-> 3, bucket_tolerance |-> 2, scale |-> <<1, 1>>],
     [resolution |-> 1, bucket_tolerance |-> 1, scale |-> <<1, 2>>]}

\* (cache_latents, cache_latents_to_disk) : no caching, and every policy
NoCaching == {<<FALSE, FALSE>>}

CachePolicies == BOOLEAN \X BOOLEAN

DatasetConfigs(geometries, random_crops, pois, batch_sizes, policies) ==
    {[resolution |-> g.resolution,
      bucket_tolerance |-> g.bucket_tolerance,
      scale |-> g.scale,
      random_crop |-> rc,
      poi |-> p,
      batch_size |-> bs,
      cache_latents |-> c[1],
      cache_latents_to_disk |-> c[2],
      caption_ext |-> "json",
      augmentations |-> <<>>,
      shuffle_augmentations |-> FALSE,
      invert_mask |-> FALSE] :
        g \in geometries, rc \in random_crops, p \in pois, bs \in batch_sizes,
        c \in policies}

----------------------------------------------------------------------------
(* StableDiffusion : the device state of its modules *)

\* self.device_torch, the device the model was given
DeviceTorch == "cuda"

\* a module that is not there (adapter, refiner_unet = None)
NoModule == [training |-> FALSE, device |-> ""]

NoAdapter == [kind |-> "", training |-> FALSE, device |-> ""]

\* self.device_state = None
NoState ==
    [vae |-> NoModule, unet |-> NoModule, text_encoder |-> <<>>,
     adapter |-> NoModule, refiner_unet |-> NoModule]

\* lines 200-282 : the model as load_model leaves it : every module on the
\* device and in eval mode, two text encoders for sdxl and one otherwise, no
\* adapter, no refiner.  requires_grad of the modules is not modelled
StableDiffusion(is_xl) ==
    LET module == [training |-> FALSE, device |-> DeviceTorch]
    IN  [is_xl |-> is_xl,
         vae |-> module,
         unet |-> module,
         text_encoder |-> IF is_xl THEN <<module, module>> ELSE <<module>>,
         adapter |-> NoAdapter,
         refiner_unet |-> NoModule,
         device_state |-> NoState]

\* the training flag and the device of every module
ModuleStates(s) ==
    [vae |-> s.vae, unet |-> s.unet, text_encoder |-> s.text_encoder,
     adapter |-> s.adapter, refiner_unet |-> s.refiner_unet]

\* lines 1466-1526 : save_device_state.  The device noted for an IPAdapter
\* is that of the unet (line 1499)
save_device_state(s) ==
    [s EXCEPT !.device_state =
        [vae |-> s.vae,
         unet |-> s.unet,
         text_encoder |-> s.text_encoder,
         adapter |-> IF s.adapter.kind = ""
                     THEN NoModule
                     ELSE [training |-> s.adapter.training,
                           device |-> IF s.adapter.kind = "IPAdapter"
                                      THEN s.unet.device
                                      ELSE s.adapter.device],
         refiner_unet |-> s.refiner_unet]]

\* lines 1536-1590 : set_device_state(state) : train() or eval() and
\* to(device) for every module that is there
set_device_state(s, state) ==
    [s EXCEPT
        !.vae = state.vae,
        !.unet = state.unet,
        !.text_encoder = [i \in 1..Len(s.text_encoder) |-> state.text_encoder[i]],
        !.adapter = IF s.adapter.kind = ""
                    THEN @
                    ELSE [@ EXCEPT !.training = state.adapter.training,
                                   !.device = state.adapter.device],
        !.refiner_unet = IF s.refiner_unet = NoModule THEN @ ELSE state.refiner_unet]

\* lines 1598-1648 : the state of a preset : no module trains, the active
\* ones sit on the device and the others on the cpu
PresetState(s, device_state_preset) ==
    LET active_modules == IF device_state_preset = "cache_latents"
                          THEN {"vae"}
                          ELSE {"vae", "unet", "text_encoder", "adapter",
                                "refiner_unet"}
        module(name) == [training |-> FALSE,
                         device |-> IF name \in active_modules
                                    THEN DeviceTorch
                                    ELSE "cpu"]
    IN  [vae |-> module("vae"),
         unet |-> module("unet"),
         text_encoder |-> [i \in 1..Len(s.text_encoder) |-> module("text_encoder")],
         adapter |-> module("adapter"),
         refiner_unet |-> module("refiner_unet")]

\* a restore that forgets the saved state without applying it
restore_device_state_dropped(s) == [s EXCEPT !.device_state = NoState]

\* lines 1528-1534 : restore_device_state
restore_device_state(s) ==
    IF s.device_state = NoState
    THEN s
    ELSE [set_device_state(s, s.device_state) EXCEPT !.device_state = NoState]

\* a preset applied without saving the state before it
set_device_state_preset_unsaved(s, device_state_preset) ==
    set_device_state(s, PresetState(s, device_state_preset))

\* lines 1592-1650 : set_device_state_preset
set_device_state_preset(s, device_state_preset) ==
    set_device_state(save_device_state(s), PresetState(s, device_state_preset))

\* encode_images lines 1147-1151 : the vae is moved to the device if it is
\* on the cpu, and put in eval mode
encode_images_vae(s) ==
    [s EXCEPT !.vae = [training |-> FALSE,
                       device |-> IF @.device = "cpu" THEN DeviceTorch ELSE @.device]]

\* StableDiffusion.set_device_state_preset(device_state_preset), as
\* cache_latents_all_latents (line 1213 of the mixins) and generate_images
\* (line 358) call it : never inside another preset
call_set_device_state_preset(device_state_preset) ==
    /\ sd.device_state = NoState
    /\ sd' = set_device_state_preset(sd, device_state_preset)
    /\ calls' = [calls EXCEPT !.preset = ModuleStates(sd)]
    /\ UNCHANGED <<dataset_config, file_list, buckets, batch_indices, epoch_num,
                   sb, poi, disk, cp, peer>>

\* StableDiffusion.encode_images, inside a preset or outside
call_encode_images ==
    /\ sd' = encode_images_vae(sd)
    /\ UNCHANGED <<dataset_config, file_list, buckets, batch_indices, epoch_num,
                   sb, poi, disk, cp, calls, peer>>

\* StableDiffusion.restore_device_state
call_restore_device_state ==
    /\ sd' = restore_device_state(sd)
    /\ UNCHANGED <<dataset_config, file_list, buckets, batch_indices, epoch_num,
                   sb, poi, disk, cp, calls, peer>>

\* image files : "d/a.png", "e/a.png" and "d/b.png"
ImageA == [dir |-> "d", name |-> "a.png"]

ImageB == [dir |-> "e", name |-> "b.png"]

\* every natural size up to MaxDim a side
ImageSizes == (2..MaxDim) \X (2..MaxDim)

\* the natural sizes of the datasets of several items : landscape, portrait
FewImageSizes == {<<MaxDim, 2>>, <<2, MaxDim>>}

\* every rectangle of at most max_side a side, at most max_x to the right
\* of and max_y below the origin, that lies inside the image
Regions(size, max_x, max_y, max_side) ==
    {r \in [x : 0..max_x, y : 0..max_y,
            width : 1..max_side, height : 1..max_side] :
        r.x + r.width <= size[1] /\ r.y + r.height <= size[2]}

\* the whole image : what the constructor falls back to without a region
FullRegion(size) == [x |-> 0, y |-> 0, width |-> size[1], height |-> size[2]]

\* a mask file is absent (<<0, 0>>) or a landscape image
MaskSizes == {<<0, 0>>, <<MaxDim, 2>>}

\* items of a dataset without a point of interest, of every size
PlainItems(cfg) ==
    {FileItemDTO(cfg, ImageA, size, FullRegion(size), FALSE, FALSE, <<0, 0>>) :
        size \in ImageSizes}

\* items without a point of interest for the datasets of several items
FewPlainItems(cfg) ==
    {FileItemDTO(cfg, ImageA, size, FullRegion(size), FALSE, FALSE, mask) :
        size \in FewImageSizes, mask \in MaskSizes}

\* items of a dataset that declares a point of interest : every small region
\* at the top edge near the origin, as it is and mirrored on both axes, in a
\* square and in a landscape image
PoiItems(cfg) ==
    UNION {{FileItemDTO(cfg, ImageA, size, r, flip, flip, <<0, 0>>) :
                r \in Regions(size, 1, 0, MaxRegion), flip \in BOOLEAN} :
            size \in {<<MaxDim, MaxDim>>, <<MaxDim, MaxDim - 1>>}}

\* items with a point of interest for the datasets of several items : the
\* region is the whole image or its upper half
FewPoiItems(cfg) ==
    {FileItemDTO(cfg, ImageA, <<MaxDim, MaxDim>>,
                 [x |-> 0, y |-> 0, width |-> MaxDim, height |-> h],
                 FALSE, FALSE, <<0, 0>>) :
        h \in {2, MaxDim}}

\* items without mask for the longer datasets
MaskFreeItems(cfg) ==
    {FileItemDTO(cfg, ImageA, size, FullRegion(size), FALSE, FALSE, <<0, 0>>) :
        size \in FewImageSizes}

\* the items of a dataset with config cfg
Items(cfg) == IF cfg.poi THEN FewPoiItems(cfg) ELSE FewPlainItems(cfg)

HalfScale == {g \in GeometryConfigs : g.scale = <<1, 2>>}

IdleFrame == [pc |-> "idle", idx |-> 0, did_process_poi |-> FALSE]

\* cache_latents_all_latents not running.  i is the item (from 1) the pass
\* is at, latent_path its local, exists[j] what os.path.exists answered for
\* item j ("hit", "miss", or "" before its check), exc the step that raised
IdleCache ==
    [pc |-> "idle", i |-> 0, latent_path |-> NoPath, exists |-> <<>>, exc |-> ""]

\* no second process runs the pass.  A running one has its own copy of the
\* dataset's items (file_list) and the locals of its pass : the item i it is
\* at, latent_path, and the latent it encoded but has not written yet
NoPeer ==
    [pc |-> "idle", i |-> 0, latent_path |-> NoPath, latent |-> NoLatent,
     file_list |-> <<>>, exc |-> ""]

\* preset is the state of the modules when set_device_state_preset was
\* last called
NoCalls ==
    [encode |-> <<>>, save |-> <<>>, image |-> <<>>, load_file |-> {}, raised |-> {},
     preset |-> NoState]

NoPoiFrame ==
    [poi_x |-> 0, poi_y |-> 0, poi_width |-> 0, poi_height |-> 0, num_loops |-> 0]

Init ==
    /\ dataset_config \in DatasetConfigs(GeometryConfigs, BOOLEAN, {FALSE}, 1..MaxBatch, NoCaching)
                              \cup DatasetConfigs(HalfScale, BOOLEAN, {TRUE}, 1..MaxBatch, NoCaching)
    /\ \/ \E n \in 1..NumItems : file_list \in [1..n -> Items(dataset_config)]
       \/ /\ ~dataset_config.poi /\ ~dataset_config.random_crop
          /\ \E n \in 1..MaxList : file_list \in [1..n -> MaskFreeItems(dataset_config)]
    /\ buckets = <<>>
    /\ batch_indices = <<>>
    /\ epoch_num = 0
    /\ sb = IdleFrame
    /\ poi = NoPoiFrame
    /\ sd = StableDiffusion(FALSE)
    /\ disk = {}
    /\ peer = NoPeer
    /\ cp = IdleCache
    /\ calls = NoCalls

----------------------------------------------------------------------------
(* BucketsMixin *)

\* setup_buckets lines 237-241 : append idx to the bucket keyed
\* "{crop_width}x{crop_height}", creating the bucket on first use
BucketInsert(bs, crop_width, crop_height, idx) ==
    IF \E k \in 1..Len(bs) : bs[k].width = crop_width /\ bs[k].height = crop_height
    THEN [k \in 1..Len(bs) |->
            IF bs[k].width = crop_width /\ bs[k].height = crop_height
            THEN [bs[k] EXCEPT !.file_list_idx = Append(@, idx)]
            ELSE bs[k]]
    ELSE Append(bs, [width |-> crop_width, height |-> crop_height,
                     file_list_idx |-> <<idx>>])

\* every order random.shuffle can leave a list in
Shuffles(list) ==
    {[k \in 1..Len(list) |-> list[f[k]]] :
        f \in {g \in [1..Len(list) -> 1..Len(list)] :
                 \A a, b \in 1..Len(list) : a # b => g[a] # g[b]}}

\* shuffle_buckets : every bucket's index list shuffled in place
RECURSIVE shuffle_buckets(_)
shuffle_buckets(bs) ==
    IF bs = <<>>
    THEN {<<>>}
    ELSE {<<[Head(bs) EXCEPT !.file_list_idx = list]>> \o rest :
            list \in Shuffles(Head(bs).file_list_idx),
            rest \in shuffle_buckets(Tail(bs))}

\* the batches of one bucket with a trailing partial batch dropped
RECURSIVE BucketBatchesDropLast(_, _, _)
BucketBatchesDropLast(list, start_idx, batch_size) ==
    IF start_idx + batch_size > Len(list)
    THEN <<>>
    ELSE <<SubSeq(list, start_idx + 1, start_idx + batch_size)>>
             \o BucketBatchesDropLast(list, start_idx + batch_size, batch_size)

\* the batches of one bucket : range(0, len, batch_size) slices
RECURSIVE BucketBatches(_, _, _)
BucketBatches(list, start_idx, batch_size) ==
    IF start_idx >= Len(list)
    THEN <<>>
    ELSE LET end_idx == Min(start_idx + batch_size, Len(list))
         IN  <<SubSeq(list, start_idx + 1, end_idx)>>
                 \o BucketBatches(list, start_idx + batch_size, batch_size)

\* build_batch_indices : the batches of every bucket, in bucket order
RECURSIVE build_batch_indices(_, _)
build_batch_indices(bs, batch_size) ==
    IF bs = <<>>
    THEN <<>>
    ELSE BucketBatches(Head(bs).file_list_idx, 0, batch_size)
             \o build_batch_indices(Tail(bs), batch_size)

\* the item setup_buckets is at (idx counts from 0 as in the code)
CurItem == file_list[sb.idx + 1]

\* position after the item at sb.idx is put into its bucket : the next
\* iteration, or past the loop with the loop's locals as they were left
NextItemFrame(did_process_poi) ==
    IF sb.idx + 1 < Len(file_list)
    THEN [pc |-> "item", idx |-> sb.idx + 1, did_process_poi |-> did_process_poi]
    ELSE [pc |-> "shuffle", idx |-> sb.idx, did_process_poi |-> did_process_poi]

\* the early return of setup_buckets dropping the buckets of the first epoch
setup_buckets_return_cleared ==
    /\ sb.pc = "idle"
    /\ epoch_num > 0 /\ ~dataset_config.poi
    /\ buckets' = <<>>
    /\ sb' = [sb EXCEPT !.pc = "done"]
    /\ UNCHANGED <<dataset_config, file_list, batch_indices, epoch_num, poi, cache_vars>>

\* setup_buckets lines 178-181 : nothing to rebuild after the first epoch
setup_buckets_return ==
    /\ sb.pc = "idle"
    /\ epoch_num > 0 /\ ~dataset_config.poi
    /\ sb' = [sb EXCEPT !.pc = "done"]
    /\ UNCHANGED <<dataset_config, file_list, buckets, batch_indices, epoch_num, poi, cache_vars>>

\* the item loop started without clearing the buckets
setup_buckets_keep ==
    /\ sb.pc = "idle"
    /\ ~(epoch_num > 0 /\ ~dataset_config.poi)
    /\ sb' = [sb EXCEPT !.pc = "item"]
    /\ UNCHANGED <<dataset_config, file_list, buckets, batch_indices, epoch_num, poi, cache_vars>>

\* setup_buckets line 182 : clear the buckets and start the item loop
setup_buckets_clear ==
    /\ sb.pc = "idle"
    /\ ~(epoch_num > 0 /\ ~dataset_config.poi)
    /\ buckets' = <<>>
    /\ sb' = [sb EXCEPT !.pc = "item"]
    /\ UNCHANGED <<dataset_config, file_list, batch_indices, epoch_num, poi, cache_vars>>

\* the standard branch leaving the geometry of the item as it was
StandardGeometryUnset(item, bucket_resolution, crop_x, crop_y) == item

\* setup_buckets lines 199-232 : the geometry of the standard branch
StandardGeometry(item, bucket_resolution, crop_x, crop_y) ==
    LET width == ScaleInt(item.width, dataset_config.scale)
        height == ScaleInt(item.height, dataset_config.scale)
        factor == max_scale_factor(bucket_resolution, width, height)
    IN  [item EXCEPT
            !.scale_to_width = CeilScale(width, factor),
            !.scale_to_height = CeilScale(height, factor),
            !.crop_width = bucket_resolution.width,
            !.crop_height = bucket_resolution.height,
            !.crop_x = crop_x,
            !.crop_y = crop_y]

\* the crop offsets line 223-232 can choose on one axis
CropOffsets(random_crop, scale_to, new) ==
    IF random_crop
    THEN 0..(scale_to - new)
    ELSE {IntDiv(scale_to - new, 2)}

\* whether setup_poi_bucket passes its resolution test (lines 1024-1031)
PoiApplies(item) ==
    /\ item.has_point_of_interest
    /\ get_resolution(ScaleInt(item.width, dataset_config.scale),
                      ScaleInt(item.height, dataset_config.scale))
           > dataset_config.resolution

\* setup_buckets lines 190-241 for an item the standard branch handles :
\* no point of interest, or setup_poi_bucket returned False
bucket_item_standard ==
    /\ \/ sb.pc = "standard"
       \/ sb.pc = "item" /\ ~PoiApplies(CurItem)
    /\ LET width == ScaleInt(CurItem.width, dataset_config.scale)
           height == ScaleInt(CurItem.height, dataset_config.scale)
       IN  \E bucket_resolution \in get_bucket_for_image_size(
                   width, height, dataset_config.resolution,
                   dataset_config.bucket_tolerance) :
             LET sized == StandardGeometry(CurItem, bucket_resolution, 0, 0)
             IN  \E crop_x \in CropOffsets(dataset_config.random_crop,
                                           sized.scale_to_width, bucket_resolution.width),
                    crop_y \in CropOffsets(dataset_config.random_crop,
                                           sized.scale_to_height, bucket_resolution.height) :
                   LET item == StandardGeometry(CurItem, bucket_resolution, crop_x, crop_y)
                   IN  /\ file_list' = [file_list EXCEPT ![sb.idx + 1] = item]
                       /\ buckets' = BucketInsert(buckets, item.crop_width,
                                                  item.crop_height, sb.idx)
    /\ sb' = NextItemFrame(FALSE)
    /\ poi' = NoPoiFrame
    /\ UNCHANGED <<dataset_config, batch_indices, epoch_num, cache_vars>>

\* setup_buckets lines 244-245 : shuffle_buckets, then build_batch_indices
setup_buckets_finish ==
    /\ sb.pc = "shuffle"
    /\ buckets' \in shuffle_buckets(buckets)
    /\ batch_indices' = build_batch_indices(buckets', dataset_config.batch_size)
    /\ sb' = [sb EXCEPT !.pc = "done"]
    /\ UNCHANGED <<dataset_config, file_list, epoch_num, poi, cache_vars>>

\* the caller's epoch loop : the epoch ends and the next one may be set up
epoch_end ==
    /\ sb.pc = "done"
    /\ epoch_num < MaxEpoch
    /\ epoch_num' = epoch_num + 1
    /\ sb' = IdleFrame
    /\ UNCHANGED <<dataset_config, file_list, buckets, batch_indices, poi, cache_vars>>

----------------------------------------------------------------------------
(* PoiFileItemDTOMixin.setup_poi_bucket *)

initial_width == ScaleInt(CurItem.width, dataset_config.scale)

initial_height == ScaleInt(CurItem.height, dataset_config.scale)

\* lines 1034-1040 : the locals of the search start at the scaled region
setup_poi_bucket_enter ==
    /\ sb.pc = "item"
    /\ PoiApplies(CurItem)
    /\ poi' = [poi_x |-> ScaleInt(CurItem.poi_x, dataset_config.scale),
               poi_y |-> ScaleInt(CurItem.poi_y, dataset_config.scale),
               poi_width |-> ScaleInt(CurItem.poi_width, dataset_config.scale),
               poi_height |-> ScaleInt(CurItem.poi_height, dataset_config.scale),
               num_loops |-> 0]
    /\ sb' = [sb EXCEPT !.pc = "poi_loop"]
    /\ UNCHANGED <<dataset_config, file_list, buckets, batch_indices, epoch_num, cache_vars>>

\* lines 1043-1046 / 1057-1060 : the new lower bound of the window
CropLow(low) == IF low > 0 THEN 0..low ELSE {0}

\* lines 1049-1053 / 1062-1065 : the new upper bound of the window, drawn
\* from the new lower bound plus the previous extent
CropHigh(low, extent, initial) ==
    IF low + extent < initial THEN (low + extent)..initial ELSE {initial}

\* lines 1041-1084 : one attempt of the search loop
setup_poi_bucket_attempt ==
    /\ sb.pc = "poi_loop"
    /\ \E x \in CropLow(poi.poi_x), y \in CropLow(poi.poi_y) :
         \E crop_right \in CropHigh(x, poi.poi_width, initial_width),
            crop_bottom \in CropHigh(y, poi.poi_height, initial_height) :
           LET w == crop_right - x
               h == crop_bottom - y
               current_resolution == get_resolution(w, h)
           IN  IF current_resolution >= dataset_config.resolution
               THEN /\ poi' = [poi EXCEPT !.poi_x = x, !.poi_y = y,
                                          !.poi_width = w, !.poi_height = h]
                    /\ sb' = [sb EXCEPT !.pc = "poi_found"]
               ELSE /\ poi' = [poi EXCEPT !.poi_x = x, !.poi_y = y,
                                          !.poi_width = w, !.poi_height = h,
                                          !.num_loops = @ + 1]
                    /\ sb' = [sb EXCEPT !.pc = IF poi.num_loops + 1 > MaxLoops
                                               THEN "standard"
                                               ELSE "poi_loop"]
    /\ UNCHANGED <<dataset_config, file_list, buckets, batch_indices, epoch_num, cache_vars>>

\* the geometry with scale_to_* taken from the window, not from the image
PoiGeometryOfWindow(item, window, bucket_resolution, width, height) ==
    LET factor == max_scale_factor(bucket_resolution, window.poi_width,
                                   window.poi_height)
    IN  [item EXCEPT
            !.scale_to_width = CeilScale(window.poi_width, factor),
            !.scale_to_height = CeilScale(window.poi_height, factor),
            !.crop_width = bucket_resolution.width,
            !.crop_height = bucket_resolution.height,
            !.crop_x = FloorScale(window.poi_x, factor),
            !.crop_y = FloorScale(window.poi_y, factor)]

\* lines 1086-1105 : the geometry written once the window is found
PoiGeometry(item, window, bucket_resolution, width, height) ==
    LET factor == max_scale_factor(bucket_resolution, window.poi_width,
                                   window.poi_height)
    IN  [item EXCEPT
            !.scale_to_width = CeilScale(width, factor),
            !.scale_to_height = CeilScale(height, factor),
            !.crop_width = bucket_resolution.width,
            !.crop_height = bucket_resolution.height,
            !.crop_x = FloorScale(window.poi_x, factor),
            !.crop_y = FloorScale(window.poi_y, factor)]

\* lines 1086-1111, then setup_buckets lines 237-241 : setup_poi_bucket
\* returns True and the item goes into the bucket of its crop size
setup_poi_bucket_finish ==
    /\ sb.pc = "poi_found"
    /\ \E bucket_resolution \in get_bucket_for_image_size(
               poi.poi_width, poi.poi_height, dataset_config.resolution,
               dataset_config.bucket_tolerance) :
         LET item == PoiGeometry(CurItem, poi, bucket_resolution,
                                 initial_width, initial_height)
         IN  /\ file_list' = [file_list EXCEPT ![sb.idx + 1] = item]
             /\ buckets' = BucketInsert(buckets, item.crop_width,
                                        item.crop_height, sb.idx)
    /\ sb' = NextItemFrame(TRUE)
    /\ poi' = [poi EXCEPT !.num_loops = 0]
    /\ UNCHANGED <<dataset_config, batch_indices, epoch_num, cache_vars>>

----------------------------------------------------------------------------
(* MaskFileItemDTOMixin.load_mask_image *)

\* lines 825-840 : the geometry after the orientation test; a mask whose
\* orientation contradicts scale_to_* swaps every size of the item
MaskFixSize(item) ==
    LET w == item.mask_size[1]
        h == item.mask_size[2]
        fix_size == \/ w > h /\ item.scale_to_width < item.scale_to_height
                    \/ h > w /\ item.scale_to_height < item.scale_to_width
    IN  IF fix_size
        THEN [item EXCEPT
                !.scale_to_width = item.scale_to_height,
                !.scale_to_height = item.scale_to_width,
                !.crop_width = item.crop_height,
                !.crop_height = item.crop_width,
                !.crop_x = item.crop_y,
                !.crop_y = item.crop_x]
        ELSE item

\* what the image is flipped, resized and cropped by
Geometry(item) ==
    <<item.flip_x, item.flip_y, item.scale_to_width, item.scale_to_height,
      item.crop_x, item.crop_y, item.crop_width, item.crop_height>>

\* the image read from a file after the flips, the resize and the crop
Processed(item, source, mode) ==
    [source |-> source, mode |-> mode, geometry |-> Geometry(item), steps |-> <<>>]

\* the orientation of an image of this size contradicts scale_to_*
Mismatch(size, item) ==
    \/ size[1] > size[2] /\ item.scale_to_width < item.scale_to_height
    \/ size[2] > size[1] /\ item.scale_to_height < item.scale_to_width

\* load_and_process_image lines 407-415 : the orientation test raises
OrientationMismatch(item) == Mismatch(<<item.width, item.height>>, item)

\* what a loading operation leaves : the item, and the exception ("" if it
\* returned)
Outcome(item, exc) == [item |-> item, exc |-> exc]

----------------------------------------------------------------------------
(* AugmentationFileItemDTOMixin *)

\* hasattr(A, method_name) : the albumentations operations of the model
KnownMethods == {"HorizontalFlip", "Rotate", "ColorJitter"}

\* lines 726-727
spatial_transforms ==
    {"Rotate", "Flip", "HorizontalFlip", "VerticalFlip", "Resize", "Crop",
     "RandomCrop", "ElasticTransform", "GridDistortion", "OpticalDistortion"}

\* every list of at most n elements of S
SeqsUpTo(S, n) == UNION {[1..k -> S] : k \in 0..n}

\* what one run of a pipeline of n steps draws : for each step 0 when its
\* probability skipped it, else the parameters it drew
Runs(n) == [1..n -> 0..MaxParam]

\* the steps a recorded list applies, as the image keeps them
AppliedSteps(transforms) ==
    LET Applied(t) == t.applied
        ran == SelectSeq(transforms, Applied)
    IN  [k \in 1..Len(ran) |-> [name |-> ran[k].name, params |-> ran[k].params]]

\* the record kept with every step of the pipeline
augment_image_keep_all(transforms) == transforms

\* lines 725-729 : only the spatial steps of the record are kept
augment_image_spatial(transforms) ==
    LET IsSpatial(t) == t.name \in spatial_transforms
    IN  SelectSeq(transforms, IsSpatial)

\* lines 707-741 : augment_image(img).  pipeline is the composed transform
\* (rebuilt in a shuffled order when shuffle_augmentations is set), run what
\* it drew.  ReplayCompose records every step with whether it was applied
\* and with which parameters
augment_image(item, img, pipeline, run) ==
    LET recorded == [k \in 1..Len(pipeline) |->
                        [name |-> pipeline[k], applied |-> run[k] # 0,
                         params |-> run[k]]]
    IN  [item EXCEPT
            !.aug_transform = pipeline,
            !.unaugmented_tensor = img,
            !.aug_replay_spatial_transforms =
                [is_none |-> FALSE, transforms |-> augment_image_spatial(recorded)],
            !.tensor = [img EXCEPT !.steps = @ \o AppliedSteps(recorded)]]

\* lines 744-773 : augment_spatial_control(img) replays the stored record
augment_spatial_control(item, img) ==
    IF item.aug_replay_spatial_transforms.is_none
    THEN img
    ELSE [img EXCEPT !.steps =
             @ \o AppliedSteps(item.aug_replay_spatial_transforms.transforms)]

----------------------------------------------------------------------------
(* Loading the images of an item *)

\* lines 510-560 : load_control_image
load_control_image(item, opened) ==
    IF ~opened
    THEN Outcome(item, "load_control_image: UnboundLocalError")
    ELSE IF Mismatch(item.control_size, item)
    THEN Outcome(item, "load_control_image: ValueError")
    ELSE Outcome([item EXCEPT !.control_tensor =
                     augment_spatial_control(item, Processed(item, <<"control">>, "RGB"))],
                 "")

\* lines 806-881 : load_mask_image : inversion if configured (822-823),
\* blur (849-852), convert('L') (855), replay (875-878), value_map (879).
\* The blur radius is int(min_size * random.random() * 0.005), 0 for the
\* sizes of the model
load_mask_image_of(item, opened) ==
    IF ~opened
    THEN Outcome(item, "load_mask_image: UnboundLocalError")
    ELSE LET fixed == MaskFixSize(item)
             inverted == IF dataset_config.invert_mask
                         THEN <<[name |-> "invert", params |-> 0]>>
                         ELSE <<>>
             img == [Processed(fixed, <<"mask">>, "L") EXCEPT
                        !.steps = inverted \o
                                  <<[name |-> "GaussianBlur", params |-> 0],
                                    [name |-> "convert_L", params |-> 0]>>]
             replayed == augment_spatial_control(fixed, img)
         IN  Outcome([fixed EXCEPT !.mask_tensor =
                         [replayed EXCEPT !.steps =
                             @ \o <<[name |-> "value_map", params |-> 0]>>]],
                     "")

\* lines 910-953 : load_unconditional_image
load_unconditional_image(item, opened) ==
    IF ~opened
    THEN Outcome(item, "load_unconditional_image: UnboundLocalError")
    ELSE IF Mismatch(item.unconditional_size, item)
    THEN Outcome(item, "load_unconditional_image: ValueError")
    ELSE Outcome([item EXCEPT !.unconditional_tensor =
                     augment_spatial_control(item,
                                             Processed(item, <<"unconditional">>, "RGB"))],
                 "")

\* lines 382-389, 477-484 : the companions that exist are loaded in turn;
\* the first exception ends the call
load_companions(item, opens) ==
    LET c == IF item.has_control_image
             THEN load_control_image(item, opens.control)
             ELSE Outcome(item, "")
        m == IF c.exc # "" THEN c
             ELSE IF c.item.has_mask_image
             THEN load_mask_image_of(c.item, opens.mask)
             ELSE c
        u == IF m.exc # "" THEN m
             ELSE IF m.item.has_unconditional
             THEN load_unconditional_image(m.item, opens.unconditional)
             ELSE m
    IN  u

\* whether each companion file of the item can be opened
Opens(item) ==
    {o \in [control : BOOLEAN, mask : BOOLEAN, unconditional : BOOLEAN] :
        /\ ~item.has_control_image => o.control
        /\ ~item.has_mask_image => o.mask
        /\ ~item.has_unconditional => o.unconditional}

\* what the pixels of the processed primary image depend on
PixelsOf(item) == Processed(item, <<"image", item.path.dir, item.path.name>>, "RGB")

\* lines 391-484 : load_and_process_image of an item that is not cached :
\* every way it can end.  A failed Image.open is printed; img is then
\* unbound and its first use raises
load_and_process_image(item, only_load_latents, cfg) ==
    {Outcome(item, "UnboundLocalError")}
    \cup (IF OrientationMismatch(item)
          THEN {Outcome(item, "ValueError")}
          ELSE LET tensors ==
                       IF item.has_augmentations
                       THEN {augment_image(item, PixelsOf(item), pipeline, run) :
                               pipeline \in IF cfg.shuffle_augmentations
                                            THEN Shuffles(Methods(cfg.augmentations))
                                            ELSE {item.aug_transform},
                               run \in Runs(Len(cfg.augmentations))}
                       ELSE {[item EXCEPT !.tensor = PixelsOf(item)]}
               IN  IF only_load_latents
                   THEN {Outcome(t, "") : t \in tensors}
                   ELSE {load_companions(t, opens) : t \in tensors, opens \in Opens(item)})

\* load_mask_image of item i, called while an epoch's batches are loaded
load_mask_image(i) ==
    /\ sb.pc = "done"
    /\ cp.pc \in {"idle", "done"}
    /\ file_list[i].has_mask_image
    /\ file_list' = [file_list EXCEPT ![i] = load_mask_image_of(file_list[i], TRUE).item]
    /\ UNCHANGED <<dataset_config, buckets, batch_indices, epoch_num, sb, poi, cache_vars>>

\* load_and_process_image of item i, not cached, while an epoch's batches
\* are loaded : the item is loaded for a batch and cleaned up after it.
\* Nothing catches an exception that leaves the call : the run ends
call_load_and_process_image(i) ==
    /\ sb.pc = "done"
    /\ cp.pc = "idle"
    /\ calls.raised = {}
    /\ file_list[i].tensor = NoImage
    /\ ~file_list[i].is_latent_cached
    /\ \E out \in load_and_process_image(file_list[i], FALSE, dataset_config) :
         /\ file_list' = [file_list EXCEPT ![i] = out.item]
         /\ calls' = [calls EXCEPT !.raised = IF out.exc = ""
                                   THEN @
                                   ELSE @ \cup {<<"load_and_process_image", i, out.exc>>}]
    /\ UNCHANGED <<dataset_config, buckets, batch_indices, epoch_num, sb, poi,
                   sd, disk, peer, cp>>

----------------------------------------------------------------------------
(* LatentCachingFileItemDTOMixin *)

\* os.path.splitext(name)[0]
splitext(name) ==
    CASE name = "a.png" -> "a"
      [] name = "b.png" -> "b"

\* the record with the flip keys present whether or not the item is flipped
get_latent_info_dict_flips(item) ==
    [k \in {"filename", "scale_to_width", "scale_to_height", "crop_x", "crop_y",
            "crop_width", "crop_height", "latent_space_version", "latent_version",
            "flip_x", "flip_y"} |->
        CASE k = "filename" -> item.path.name
          [] k = "scale_to_width" -> item.scale_to_width
          [] k = "scale_to_height" -> item.scale_to_height
          [] k = "crop_x" -> item.crop_x
          [] k = "crop_y" -> item.crop_y
          [] k = "crop_width" -> item.crop_width
          [] k = "crop_height" -> item.crop_height
          [] k = "latent_space_version" -> item.latent_space_version
          [] k = "latent_version" -> item.latent_version
          [] k = "flip_x" -> item.flip_x
          [] k = "flip_y" -> item.flip_y]

\* get_latent_info_dict : the nine base keys, then flip_x and flip_y only
\* when true
get_latent_info_dict(item) ==
    [k \in {"filename", "scale_to_width", "scale_to_height", "crop_x", "crop_y",
            "crop_width", "crop_height", "latent_space_version", "latent_version"}
           \cup (IF item.flip_x THEN {"flip_x"} ELSE {})
           \cup (IF item.flip_y THEN {"flip_y"} ELSE {}) |->
        CASE k = "filename" -> item.path.name
          [] k = "scale_to_width" -> item.scale_to_width
          [] k = "scale_to_height" -> item.scale_to_height
          [] k = "crop_x" -> item.crop_x
          [] k = "crop_y" -> item.crop_y
          [] k = "crop_width" -> item.crop_width
          [] k = "crop_height" -> item.crop_height
          [] k = "latent_space_version" -> item.latent_space_version
          [] k = "latent_version" -> item.latent_version
          [] k = "flip_x" -> TRUE
          [] k = "flip_y" -> TRUE]

\* the keys a record can have, in the order sort_keys=True writes them
SortedKeys ==
    <<"crop_height", "crop_width", "crop_x", "crop_y", "filename", "flip_x",
      "flip_y", "latent_space_version", "latent_version", "scale_to_height",
      "scale_to_width">>

\* json.dumps(hash_dict, sort_keys=True) : the key / value pairs by key
json_dumps(hash_dict) ==
    LET Present(k) == k \in DOMAIN hash_dict
        keys == SelectSeq(SortedKeys, Present)
    IN  [n \in 1..Len(keys) |-> <<keys[n], hash_dict[keys[n]]>>]

\* urlsafe_b64encode(md5(hash_input).digest()) without the padding; the
\* digest is taken to be free of collisions and stands for its input
md5_b64(hash_input) == <<"md5", hash_input>>

\* get_latent_path lines 1160-1168 : the path derived from the item
LatentPathOf(item) ==
    [dir |-> <<item.path.dir, "_latent_cache">>,
     name |-> <<splitext(item.path.name),
                md5_b64(json_dumps(get_latent_info_dict(item))), ".safetensors">>]

\* get_latent_path with the cached path returned even when recalculate is set
get_latent_path_cached(item, recalculate) ==
    IF item._latent_path # NoPath
    THEN item._latent_path
    ELSE LatentPathOf(item)

\* get_latent_path(recalculate) : the path it returns and stores
get_latent_path(item, recalculate) ==
    IF item._latent_path # NoPath /\ ~recalculate
    THEN item._latent_path
    ELSE LatentPathOf(item)

\* what get_latent_path(recalculate=True) reads of an item, by the claim
KeyFields(item) ==
    <<item.path, item.scale_to_width, item.scale_to_height, item.crop_x,
      item.crop_y, item.crop_width, item.crop_height, item.latent_space_version,
      item.latent_version, item.flip_x, item.flip_y>>

\* item.get_latent_path(recalculate), called outside the population pass
call_get_latent_path(i, recalculate) ==
    /\ sb.pc = "done"
    /\ cp.pc \in {"idle", "done"}
    /\ file_list' = [file_list EXCEPT
                        ![i]._latent_path = get_latent_path(file_list[i], recalculate)]
    /\ UNCHANGED <<dataset_config, buckets, batch_indices, epoch_num, sb, poi,
                   cache_vars>>

----------------------------------------------------------------------------
(* LatentCachingMixin.cache_latents_all_latents *)

\* os.path.exists(latent_path) never finding the artifact
path_exists_never(path, files) == FALSE

\* os.path.exists(latent_path)
path_exists(path, files) == \E f \in files : f.path = path

\* the file at path, as load_file reads it
FileAt(path, files) == CHOOSE f \in files : f.path = path

\* what a file holds between its creation by save_file and the end of the
\* write : safetensors writes straight to the final path, so the path exists
\* before its content is whole, and load_file of it raises
PartlyWritten == [pixels |-> NoImage, sample |-> 0]

\* save_file that returns without writing anything
save_file_lost(files, path, latent, meta) == files

\* save_file(state_dict, latent_path, metadata=meta) : path is (over)written
save_file(files, path, latent, meta) ==
    {f \in files : f.path # path} \cup {[path |-> path, latent |-> latent, meta |-> meta]}

\* StableDiffusion.encode_images : latent_dist.sample() draws the latent
encode_images(item) == {[pixels |-> item.tensor, sample |-> n] : n \in 1..MaxSample}

\* an earlier run of the same dataset left the artifact of item i behind
earlier_run(i) ==
    /\ sb.pc = "done"
    /\ cp.pc = "idle"
    /\ dataset_config.cache_latents_to_disk
    /\ LET item == [file_list[i] EXCEPT
                       !.latent_space_version = IF sd.is_xl THEN "sdxl" ELSE "sd1"]
       IN  /\ ~path_exists(LatentPathOf(item), disk)
           /\ disk' = save_file(disk, LatentPathOf(item),
                                [pixels |-> PixelsOf(item), sample |-> 1],
                                get_latent_info_dict(item))
    /\ UNCHANGED <<dataset_config, file_list, buckets, batch_indices, epoch_num,
                   sb, poi, sd, cp, calls, peer>>

\* the dataset runs the pass once, before training, if caching is enabled
is_caching_latents ==
    dataset_config.cache_latents \/ dataset_config.cache_latents_to_disk

\* lines 1203-1216 : the pass starts, and puts the model in the preset of
\* the pass (line 1213)
cache_latents_begin ==
    /\ sb.pc = "done"
    /\ is_caching_latents
    /\ cp.pc = "idle"
    /\ cp' = [IdleCache EXCEPT !.pc = "item", !.i = 1,
                               !.exists = [j \in 1..Len(file_list) |-> ""]]
    /\ sd' = set_device_state_preset(sd, "cache_latents")
    /\ calls' = [calls EXCEPT !.preset = ModuleStates(sd)]
    /\ UNCHANGED <<dataset_config, file_list, buckets, batch_indices, epoch_num,
                   sb, poi, disk, peer>>

\* the loop left after its first item
NextCacheFrameBreak(frame) == [frame EXCEPT !.pc = "restore"]

\* position after item cp.i is done : the next item, or past the loop
NextCacheFrame(frame) ==
    IF frame.i < Len(file_list)
    THEN [frame EXCEPT !.pc = "item", !.i = @ + 1]
    ELSE [frame EXCEPT !.pc = "restore"]

\* lines 1218-1233, 1262 : the loop body up to the exists test, and the
\* whole of it when the artifact exists
cache_latents_check ==
    /\ cp.pc = "item"
    /\ LET to_disk == dataset_config.cache_latents_to_disk
           to_memory == dataset_config.cache_latents
           versioned == [file_list[cp.i] EXCEPT
                            !.latent_space_version = IF sd.is_xl THEN "sdxl" ELSE "sd1",
                            !.is_caching_to_disk = to_disk,
                            !.is_caching_to_memory = to_memory]
           latent_path == get_latent_path(versioned, TRUE)
           file_item == [versioned EXCEPT !._latent_path = latent_path]
       IN  /\ IF path_exists(latent_path, disk)
              THEN IF to_memory /\ FileAt(latent_path, disk).latent = PartlyWritten
                   THEN \* line 1232 : load_file of a file still being written
                        /\ file_list' = [file_list EXCEPT ![cp.i] = file_item]
                        /\ cp' = [cp EXCEPT !.pc = "raised", !.exc = "load_file",
                                            !.latent_path = latent_path,
                                            !.exists[cp.i] = "hit"]
                   ELSE /\ file_list' = [file_list EXCEPT ![cp.i] =
                               [file_item EXCEPT
                                   !._encoded_latent =
                                       IF to_memory
                                       THEN FileAt(latent_path, disk).latent
                                       ELSE @,
                                   !.is_latent_cached = TRUE]]
                        /\ cp' = NextCacheFrame([cp EXCEPT
                                                    !.latent_path = latent_path,
                                                    !.exists[cp.i] = "hit"])
              ELSE /\ file_list' = [file_list EXCEPT ![cp.i] = file_item]
                   /\ cp' = [cp EXCEPT !.pc = "miss", !.latent_path = latent_path,
                                       !.exists[cp.i] = "miss"]
    /\ UNCHANGED <<dataset_config, buckets, batch_indices, epoch_num, sb, poi,
                   sd, disk, peer, calls>>

\* line 1237 : load_and_process_image(transform, only_load_latents=True) of
\* an item whose is_latent_cached is still False, as it is throughout the
\* one pass over a dataset.  Image.open can fail; the failure is printed,
\* and the next use of img raises
cache_latents_load ==
    /\ cp.pc = "miss"
    /\ calls' = [calls EXCEPT !.image = Append(@, cp.i)]
    /\ \E out \in load_and_process_image(file_list[cp.i], TRUE, dataset_config) :
         /\ file_list' = [file_list EXCEPT ![cp.i] = out.item]
         /\ cp' = IF out.exc = ""
                  THEN [cp EXCEPT !.pc = "loaded"]
                  ELSE [cp EXCEPT !.pc = "raised", !.exc = "load"]
    /\ UNCHANGED <<dataset_config, buckets, batch_indices, epoch_num, sb, poi,
                   sd, disk, peer>>

\* lines 1253-1262 with the del of line 1259 left out : the tensor stays
KeepAndHold(item, latent) ==
    [item EXCEPT !._encoded_latent = IF dataset_config.cache_latents
                                     THEN latent
                                     ELSE @,
                 !.is_latent_cached = TRUE]

\* lines 1253-1262 : the latent is kept in memory if asked for, the tensor
\* is released, the item is marked cached
KeepAndRelease(item, latent) ==
    [item EXCEPT !._encoded_latent = IF dataset_config.cache_latents
                                     THEN latent
                                     ELSE @,
                 !.tensor = NoImage,
                 !.is_latent_cached = TRUE]

\* lines 1238-1262 : encode, save, keep in memory, release the tensor.
\* save_file (line 1251) can raise an I/O error; nothing catches it, so the
\* exception leaves the pass before lines 1253-1262 run
cache_latents_encode ==
    /\ cp.pc = "loaded"
    /\ \E latent \in encode_images(file_list[cp.i]), written \in BOOLEAN :
         /\ calls' = [calls EXCEPT
                         !.encode = Append(@, cp.i),
                         !.save = IF dataset_config.cache_latents_to_disk
                                  THEN Append(@, cp.i)
                                  ELSE @]
         /\ IF dataset_config.cache_latents_to_disk /\ ~written
            THEN /\ cp' = [cp EXCEPT !.pc = "raised", !.exc = "save"]
                 /\ UNCHANGED <<disk, file_list>>
            ELSE /\ written
                 /\ disk' = IF dataset_config.cache_latents_to_disk
                            THEN save_file(disk, cp.latent_path, latent,
                                           get_latent_info_dict(file_list[cp.i]))
                            ELSE disk
                 /\ file_list' = [file_list EXCEPT
                                     ![cp.i] = KeepAndRelease(@, latent)]
                 /\ cp' = NextCacheFrame(cp)
    /\ sd' = encode_images_vae(sd)
    /\ UNCHANGED <<dataset_config, buckets, batch_indices, epoch_num, sb, poi, peer>>

\* line 1269 : the loop is over, the device state is restored, the pass
\* returns
cache_latents_end ==
    /\ cp.pc = "restore"
    /\ cp' = [cp EXCEPT !.pc = "done"]
    /\ sd' = restore_device_state(sd)
    /\ UNCHANGED <<dataset_config, file_list, buckets, batch_indices, epoch_num,
                   sb, poi, disk, peer, calls>>

----------------------------------------------------------------------------
(* A second process running cache_latents_all_latents over the same folder *)

\* the second process built the same dataset : its items are equal to those
\* of this process after setup_buckets, and it starts its own pass
peer_begin ==
    /\ sb.pc = "done"
    /\ is_caching_latents
    /\ cp.pc = "idle"
    /\ peer.pc = "idle"
    /\ peer' = [NoPeer EXCEPT !.pc = "item", !.i = 1, !.file_list = file_list]
    /\ UNCHANGED <<dataset_config, file_list, buckets, batch_indices, epoch_num,
                   sb, poi, sd, disk, cp, calls>>

\* position of the second process after its item peer.i is done
NextPeerFrame(frame) ==
    IF frame.i < Len(frame.file_list)
    THEN [frame EXCEPT !.pc = "item", !.i = @ + 1]
    ELSE [frame EXCEPT !.pc = "done"]

\* lines 1218-1233, 1262 in the second process : the exists test, and the
\* load into memory when the artifact exists
peer_check ==
    /\ peer.pc = "item"
    /\ LET to_disk == dataset_config.cache_latents_to_disk
           to_memory == dataset_config.cache_latents
           versioned == [peer.file_list[peer.i] EXCEPT
                            !.latent_space_version = IF sd.is_xl THEN "sdxl" ELSE "sd1",
                            !.is_caching_to_disk = to_disk,
                            !.is_caching_to_memory = to_memory]
           latent_path == get_latent_path(versioned, TRUE)
           file_item == [versioned EXCEPT !._latent_path = latent_path]
       IN  peer' =
             IF path_exists(latent_path, disk)
             THEN IF to_memory /\ FileAt(latent_path, disk).latent = PartlyWritten
                  THEN [peer EXCEPT !.pc = "raised", !.exc = "load_file",
                                    !.latent_path = latent_path,
                                    !.file_list[peer.i] = file_item]
                  ELSE NextPeerFrame(
                         [peer EXCEPT
                            !.latent_path = latent_path,
                            !.file_list[peer.i] =
                               [file_item EXCEPT
                                   !._encoded_latent =
                                       IF to_memory
                                       THEN FileAt(latent_path, disk).latent
                                       ELSE @,
                                   !.is_latent_cached = TRUE]])
             ELSE [peer EXCEPT !.pc = "miss", !.latent_path = latent_path,
                               !.file_list[peer.i] = file_item]
    /\ UNCHANGED <<dataset_config, file_list, buckets, batch_indices, epoch_num,
                   sb, poi, sd, disk, cp, calls>>

\* line 1237 in the second process
peer_load ==
    /\ peer.pc = "miss"
    /\ \E out \in load_and_process_image(peer.file_list[peer.i], TRUE,
                                          dataset_config) :
         peer' = IF out.exc = ""
                 THEN [peer EXCEPT !.pc = "loaded", !.file_list[peer.i] = out.item]
                 ELSE [peer EXCEPT !.pc = "raised", !.exc = "load",
                                   !.file_list[peer.i] = out.item]
    /\ UNCHANGED <<dataset_config, file_list, buckets, batch_indices, epoch_num,
                   sb, poi, sd, disk, cp, calls>>

\* lines 1238-1251 in the second process : encode, and save_file creates
\* the file at latent_path; without to_disk lines 1253-1262 follow at once
peer_encode ==
    /\ peer.pc = "loaded"
    /\ \E latent \in encode_images(peer.file_list[peer.i]) :
         IF dataset_config.cache_latents_to_disk
         THEN /\ disk' = save_file(disk, peer.latent_path, PartlyWritten,
                                   get_latent_info_dict(peer.file_list[peer.i]))
              /\ peer' = [peer EXCEPT !.pc = "writing", !.latent = latent]
         ELSE /\ disk' = disk
              /\ peer' = NextPeerFrame(
                            [peer EXCEPT !.file_list[peer.i] = KeepAndRelease(@, latent)])
    /\ UNCHANGED <<dataset_config, file_list, buckets, batch_indices, epoch_num,
                   sb, poi, sd, cp, calls>>

\* lines 1251-1262 in the second process : save_file completes the file, or
\* raises and leaves it as it is
peer_write_end ==
    /\ peer.pc = "writing"
    /\ \E written \in BOOLEAN :
         IF written
         THEN /\ disk' = save_file(disk, peer.latent_path, peer.latent,
                                   get_latent_info_dict(peer.file_list[peer.i]))
              /\ peer' = NextPeerFrame(
                            [peer EXCEPT
                                !.latent = NoLatent,
                                !.file_list[peer.i] = KeepAndRelease(@, peer.latent)])
         ELSE /\ disk' = disk
              /\ peer' = [peer EXCEPT !.pc = "raised", !.exc = "save"]
    /\ UNCHANGED <<dataset_config, file_list, buckets, batch_indices, epoch_num,
                   sb, poi, sd, cp, calls>>

\* cleanup_latent that leaves the resident latent where it is
cleanup_latent_kept(item) == item

\* lines 1172-1179 : the item after cleanup_latent (the move to the cpu is
\* not modelled)
cleanup_latent_of(item) ==
    IF item._encoded_latent # NoLatent /\ ~item.is_caching_to_memory
    THEN [item EXCEPT !._encoded_latent = NoLatent]
    ELSE item

\* FileItemDTO.cleanup after a batch used item i : the tensor is dropped,
\* then cleanup_latent (1172-1179), cleanup_control (562-563), cleanup_mask
\* (884-885) and cleanup_unconditional (955-957) run
cleanup(i) ==
    /\ sb.pc = "done"
    /\ cp.pc \in {"idle", "done"}
    /\ calls.raised = {}
    /\ file_list[i].tensor # NoImage
    /\ file_list' = [file_list EXCEPT ![i] =
           [cleanup_latent_of(@) EXCEPT
                     !.tensor = NoImage,
                     !.control_tensor = NoImage,
                     !.mask_tensor = NoImage,
                     !.unconditional_tensor = NoImage]]
    /\ UNCHANGED <<dataset_config, buckets, batch_indices, epoch_num, sb, poi,
                   cache_vars>>

\* lines 1181-1192 : get_latent, where the artifact can be read : the item
\* after the call, the value returned (NoLatent for None) and whether
\* load_file was called.  get_latent_path() is asked without recalculate
get_latent(item, files) ==
    IF ~item.is_latent_cached
    THEN [item |-> item, value |-> NoLatent, read |-> FALSE]
    ELSE IF item._encoded_latent = NoLatent
    THEN LET latent == FileAt(get_latent_path(item, FALSE), files).latent
         IN  [item |-> [item EXCEPT !._latent_path = get_latent_path(item, FALSE),
                                    !._encoded_latent = latent],
              value |-> latent, read |-> TRUE]
    ELSE [item |-> item, value |-> item._encoded_latent, read |-> FALSE]

\* lines 380-390 : load_and_process_image of a cached item while an epoch's
\* batches are loaded : get_latent, then the mask.  load_file raises when
\* there is no file at the path
load_and_process_image_cached(i) ==
    /\ sb.pc = "done"
    /\ cp.pc = "done"
    /\ calls.raised = {}
    /\ file_list[i].is_latent_cached
    /\ LET item == file_list[i]
           from_disk == item._encoded_latent = NoLatent
           latent_path == get_latent_path(item, FALSE)
           \* the load_file call : its path, and the path of the item's
           \* geometry as it is when the call is made
           loads == IF from_disk
                    THEN {[item |-> i, path |-> latent_path,
                           current |-> LatentPathOf(item)]}
                    ELSE {}
       IN  IF from_disk /\ ~path_exists(latent_path, disk)
           THEN /\ calls' = [calls EXCEPT !.load_file = @ \cup loads,
                                          !.raised = @ \cup {<<"get_latent", i, "load_file">>}]
                /\ file_list' = [file_list EXCEPT ![i]._latent_path = latent_path]
           ELSE \E opens \in Opens(item) :
                  LET out == load_companions(get_latent(item, disk).item, opens)
                  IN  /\ calls' = [calls EXCEPT
                                      !.load_file = @ \cup loads,
                                      !.raised = IF out.exc = ""
                                                 THEN @
                                                 ELSE @ \cup {<<"load_and_process_image",
                                                                i, out.exc>>}]
                      /\ file_list' = [file_list EXCEPT ![i] = out.item]
    /\ UNCHANGED <<dataset_config, buckets, batch_indices, epoch_num, sb, poi,
                   sd, disk, peer, cp>>

\* lines 1172-1179 : cleanup_latent of item i after its batch was used
cleanup_latent(i) ==
    /\ sb.pc = "done"
    /\ cp.pc = "done"
    /\ file_list[i]._encoded_latent # NoLatent
    /\ file_list' = [file_list EXCEPT ![i] = cleanup_latent_of(@)]
    /\ UNCHANGED <<dataset_config, buckets, batch_indices, epoch_num, sb, poi,
                   cache_vars>>

----------------------------------------------------------------------------
(* Item construction : the checks of the mixin constructors *)

\* hasattr(cv2, name) : the cv2 names of the model
Cv2Names == {"BORDER_CONSTANT", "imread"}

\* name.upper()
upper(name) ==
    CASE name = "border_constant" -> "BORDER_CONSTANT"
      [] name = "imread" -> "IMREAD"
      [] OTHER -> name

\* lines 35-49 : Augments(**aug), the exception it raises ("" if none).  The
\* name is tested as written, and looked up in upper case
Augments(aug) ==
    IF aug.enum = "" THEN ""
    ELSE IF aug.enum \notin Cv2Names THEN "ValueError"
    ELSE IF upper(aug.enum) \notin Cv2Names THEN "AttributeError"
    ELSE ""

\* hasattr(A, method_name) that is true of every name
hasattr_A_any(method_name) == TRUE

\* line 697 : hasattr(A, aug.method_name)
hasattr_A(method_name) == method_name \in KnownMethods

\* lines 687-705 : build_augmentation_transform, the exception it raises
\* ("" if none).  Every Augments is built first (line 690), then every
\* method name is tested
build_augmentation_transform(cfg) ==
    LET augs == cfg.augmentations
        bad_enum == {k \in 1..Len(augs) : Augments(augs[k]) # ""}
        bad_name == {k \in 1..Len(augs) : ~hasattr_A(augs[k].method)}
        First(S) == CHOOSE k \in S : \A j \in S : k <= j
    IN  IF bad_enum # {} THEN Augments(augs[First(bad_enum)])
        ELSE IF bad_name # {} THEN "AssertionError"
        ELSE ""

\* PoiFileItemDTOMixin.__init__ that accepts every config
PoiFileItemDTOMixin_accepts(cfg) == ""

\* lines 976-986 : PoiFileItemDTOMixin.__init__, the exception it raises
\* ("" if none)
PoiFileItemDTOMixin_init(cfg) ==
    IF cfg.poi /\ (cfg.cache_latents \/ cfg.cache_latents_to_disk)
    THEN "Exception: poi is not supported when caching latents"
    ELSE IF cfg.poi /\ cfg.caption_ext # "json"
    THEN "Exception: poi is only supported when using json captions"
    ELSE ""

\* the exceptions the constructors of an item of this dataset can raise;
\* which of two comes first is up to the order of the mixins
InitErrors(cfg) ==
    {PoiFileItemDTOMixin_init(cfg), build_augmentation_transform(cfg)} \ {""}

\* the dataset constructs the item of its image file.  An exception leaves
\* the constructor and ends the run; no item is added
FileItemDTO_init ==
    /\ sb.pc = "idle"
    /\ cp.pc = "idle"
    /\ calls.raised = {}
    /\ file_list = <<>>
    /\ IF InitErrors(dataset_config) # {}
       THEN /\ \E exc \in InitErrors(dataset_config) :
                 calls' = [calls EXCEPT
                              !.raised = @ \cup {<<"__init__", Len(file_list) + 1, exc>>}]
            /\ UNCHANGED file_list
       ELSE /\ \E item \in Items(dataset_config) :
                 file_list' = Append(file_list, item)
            /\ UNCHANGED calls
    /\ UNCHANGED <<dataset_config, buckets, batch_indices, epoch_num, sb, poi,
                   sd, disk, peer, cp>>

----------------------------------------------------------------------------
(* Specifications *)

Next ==
    \/ setup_buckets_return
    \/ setup_buckets_clear
    \/ bucket_item_standard
    \/ setup_poi_bucket_enter
    \/ setup_poi_bucket_attempt
    \/ setup_poi_bucket_finish
    \/ setup_buckets_finish
    \/ epoch_end
    \/ \E i \in 1..Len(file_list) : load_mask_image(i)

Spec == Init /\ [][Next]_vars

\* a dataset of one item, with or without a point of interest
InitOne ==
    /\ dataset_config \in DatasetConfigs(GeometryConfigs, {FALSE}, {TRUE}, {1}, NoCaching)
                              \cup DatasetConfigs(GeometryConfigs, BOOLEAN, {FALSE}, {1}, NoCaching)
    /\ file_list \in [1..1 -> IF dataset_config.poi
                              THEN PoiItems(dataset_config)
                              ELSE PlainItems(dataset_config)]
    /\ buckets = <<>>
    /\ batch_indices = <<>>
    /\ epoch_num = 0
    /\ sb = IdleFrame
    /\ poi = NoPoiFrame
    /\ sd = StableDiffusion(FALSE)
    /\ disk = {}
    /\ peer = NoPeer
    /\ cp = IdleCache
    /\ calls = NoCalls

NextOne ==
    \/ setup_buckets_clear
    \/ bucket_item_standard
    \/ setup_poi_bucket_enter
    \/ setup_poi_bucket_attempt
    \/ setup_poi_bucket_finish
    \/ setup_buckets_finish

SpecOne == InitOne /\ [][NextOne]_vars

\* the items of a dataset that caches latents : d/a.png is a portrait image,
\* listed as it is with a landscape mask, and flipped in x without mask;
\* e/b.png is a landscape image without mask, flipped in y
CachedItems(cfg) ==
    {FileItemDTO(cfg, f[1], f[2], FullRegion(f[2]), f[4], f[5], f[3]) :
        f \in {<<ImageA, <<2, MaxDim>>, <<MaxDim, 2>>, FALSE, FALSE>>,
               <<ImageA, <<2, MaxDim>>, <<0, 0>>, TRUE, FALSE>>,
               <<ImageB, <<MaxDim, 2>>, <<0, 0>>, FALSE, TRUE>>}}

\* a dataset that caches latents, before its buckets are set up
InitCache ==
    /\ dataset_config \in DatasetConfigs(GeometryConfigs \ HalfScale, {FALSE},
                                         {FALSE}, {1}, CachePolicies)
    /\ \E n \in 1..NumCached : file_list \in [1..n -> CachedItems(dataset_config)]
    /\ buckets = <<>>
    /\ batch_indices = <<>>
    /\ epoch_num = 0
    /\ sb = IdleFrame
    /\ poi = NoPoiFrame
    /\ sd \in {StableDiffusion(is_xl) : is_xl \in BOOLEAN}
    /\ disk = {}
    /\ peer = NoPeer
    /\ cp = IdleCache
    /\ calls = NoCalls

NextCache ==
    \/ setup_buckets_clear
    \/ bucket_item_standard
    \/ setup_buckets_finish
    \/ \E i \in 1..Len(file_list) : load_mask_image(i)
    \/ \E i \in 1..Len(file_list), recalculate \in BOOLEAN :
           call_get_latent_path(i, recalculate)
    \/ \E i \in 1..Len(file_list) : earlier_run(i)
    \/ cache_latents_begin
    \/ cache_latents_check
    \/ cache_latents_load
    \/ cache_latents_encode
    \/ cache_latents_end

SpecCache == InitCache /\ [][NextCache]_vars

\* a dataset that caches latents : its pass, then the loading of its epochs
NextTrain ==
    \/ setup_buckets_clear
    \/ bucket_item_standard
    \/ setup_buckets_finish
    \/ \E i \in 1..Len(file_list) : earlier_run(i)
    \/ cache_latents_begin
    \/ cache_latents_check
    \/ cache_latents_load
    \/ cache_latents_encode
    \/ cache_latents_end
    \/ \E i \in 1..Len(file_list) : load_and_process_image_cached(i)
    \/ \E i \in 1..Len(file_list) : cleanup_latent(i)

\* the datasets whose epochs are loaded after the pass : an item with a mask
\* and one without
InitTrain ==
    /\ InitCache
    /\ ~sd.is_xl
    /\ \A i \in 1..Len(file_list) : ~file_list[i].flip_x

SpecTrain == InitTrain /\ [][NextTrain]_vars

\* the augmentation specs of the dataset configs drawn : the lists of at
\* most MaxAug operations that name no operation twice
AugmentationSpecs ==
    {a \in SeqsUpTo({Aug(m, "") : m \in KnownMethods}, MaxAug) :
        \A j, k \in 1..Len(a) : j # k => a[j] # a[k]}

\* the (control, mask, unconditional) sizes of an item of this size, <<0, 0>>
\* for an absent file : every presence and orientation in a dataset without
\* augmentations, one present set in a dataset with them
CompanionSizes(cfg, size) ==
    IF cfg.augmentations = <<>>
    THEN {<<0, 0>>, size, <<size[2], size[1]>>} \X MaskSizes
             \X {<<0, 0>>, size, <<size[2], size[1]>>}
    ELSE {<<size, <<MaxDim, 2>>, size>>, <<size, <<0, 0>>, <<0, 0>>>>}

\* the one item of a dataset whose images are loaded
LoadedItems(cfg) ==
    UNION {{[FileItemDTO(cfg, ImageA, size, FullRegion(size), FALSE, FALSE, c[2]) EXCEPT
                !.has_control_image = c[1] # <<0, 0>>,
                !.control_size = c[1],
                !.has_unconditional = c[3] # <<0, 0>>,
                !.unconditional_size = c[3]] :
              c \in CompanionSizes(cfg, size)} :
           size \in FewImageSizes}

\* a dataset without latent caching, with an augmentation spec; masks are
\* inverted in some of the datasets with one augmentation
InitLoad ==
    /\ dataset_config \in
           {c \in {[b EXCEPT !.augmentations = a, !.shuffle_augmentations = sh,
                             !.invert_mask = inv] :
                      b \in DatasetConfigs(GeometryConfigs \ HalfScale, {FALSE},
                                           {FALSE}, {1}, NoCaching),
                      a \in AugmentationSpecs, sh \in BOOLEAN, inv \in BOOLEAN} :
               c.shuffle_augmentations => Len(c.augmentations) > 1}
    /\ file_list \in [1..1 -> LoadedItems(dataset_config)]
    /\ dataset_config.invert_mask =>
           file_list[1].has_mask_image /\ Len(dataset_config.augmentations) = 1
    /\ buckets = <<>>
    /\ batch_indices = <<>>
    /\ epoch_num = 0
    /\ sb = IdleFrame
    /\ poi = NoPoiFrame
    /\ sd = StableDiffusion(FALSE)
    /\ disk = {}
    /\ peer = NoPeer
    /\ cp = IdleCache
    /\ calls = NoCalls

NextLoad ==
    \/ setup_buckets_clear
    \/ bucket_item_standard
    \/ setup_buckets_finish
    \/ \E i \in 1..Len(file_list) : call_load_and_process_image(i)
    \/ \E i \in 1..Len(file_list) : cleanup(i)

SpecLoad == InitLoad /\ [][NextLoad]_vars

\* the entries of the augmentation specs of the datasets whose items are
\* constructed : valid ones, a cv2 name in lower case, a cv2 name that has
\* no upper-case twin, an unknown cv2 name and an unknown operation
BuiltAugs ==
    {Aug("HorizontalFlip", ""), Aug("Rotate", "BORDER_CONSTANT"),
     Aug("Rotate", "border_constant"), Aug("Rotate", "imread"),
     Aug("Rotate", "BORDER_BOGUS"), Aug("Bogus", "")}

\* a dataset before its items are constructed
InitBuild ==
    /\ dataset_config \in
           {[c EXCEPT !.augmentations = a, !.caption_ext = ext] :
               c \in DatasetConfigs(HalfScale, {FALSE}, BOOLEAN, {1}, CachePolicies),
               a \in {b \in SeqsUpTo(BuiltAugs, MaxAug) :
                         \A j, k \in 1..Len(b) : j # k => b[j] # b[k]},
               ext \in {"json", "txt"}}
    /\ file_list = <<>>
    /\ buckets = <<>>
    /\ batch_indices = <<>>
    /\ epoch_num = 0
    /\ sb = IdleFrame
    /\ poi = NoPoiFrame
    /\ sd = StableDiffusion(FALSE)
    /\ disk = {}
    /\ peer = NoPeer
    /\ cp = IdleCache
    /\ calls = NoCalls

NextBuild ==
    \/ FileItemDTO_init
    \/ Len(file_list) > 0 /\ setup_buckets_clear
    \/ bucket_item_standard
    \/ setup_poi_bucket_enter
    \/ setup_poi_bucket_attempt
    \/ setup_poi_bucket_finish
    \/ setup_buckets_finish
    \/ cache_latents_begin
    \/ cache_latents_check
    \/ cache_latents_load
    \/ cache_latents_encode
    \/ cache_latents_end
    \/ \E i \in 1..Len(file_list) : call_load_and_process_image(i)
    \/ \E i \in 1..Len(file_list) : load_and_process_image_cached(i)
    \/ \E i \in 1..Len(file_list) : cleanup(i)

SpecBuild == InitBuild /\ [][NextBuild]_vars

\* a dataset whose items are asked for their cache paths while its batches
\* are loaded, without a population pass
InitKey ==
    /\ InitCache
    /\ ~dataset_config.cache_latents
    /\ ~dataset_config.cache_latents_to_disk

NextKey ==
    \/ setup_buckets_clear
    \/ bucket_item_standard
    \/ setup_buckets_finish
    \/ \E i \in 1..Len(file_list) : load_mask_image(i)
    \/ \E i \in 1..Len(file_list), recalculate \in BOOLEAN :
           call_get_latent_path(i, recalculate)

SpecKey == InitKey /\ [][NextKey]_vars

\* the models whose device state is switched : every training flag and
\* device of the modules, one text encoder or two, with or without adapter
\* and (for sdxl) refiner.  An IPAdapter sits on the device of the unet, where
\* its constructor puts it (ip_adapter.py line 166)
Models ==
    LET Modules == [training : BOOLEAN, device : {"cpu", DeviceTorch}]
        Adapters(unet) ==
            {NoAdapter}
                \cup {[kind |-> "T2IAdapter", training |-> m.training,
                       device |-> m.device] : m \in Modules}
                \cup {[kind |-> "IPAdapter", training |-> t, device |-> unet.device] :
                        t \in BOOLEAN}
    IN  UNION {{[StableDiffusion(is_xl) EXCEPT
                    !.vae = v, !.unet = u, !.text_encoder = te, !.adapter = a,
                    !.refiner_unet = r] :
                  v \in Modules,
                  te \in [1..(IF is_xl THEN 2 ELSE 1) -> Modules],
                  a \in Adapters(u),
                  r \in IF is_xl THEN {NoModule} \cup Modules ELSE {NoModule}} :
               is_xl \in BOOLEAN, u \in Modules}

InitDevice ==
    /\ dataset_config \in DatasetConfigs(HalfScale, {FALSE}, {FALSE}, {1}, NoCaching)
    /\ file_list = <<>>
    /\ buckets = <<>>
    /\ batch_indices = <<>>
    /\ epoch_num = 0
    /\ sb = IdleFrame
    /\ poi = NoPoiFrame
    /\ sd \in Models
    /\ disk = {}
    /\ peer = NoPeer
    /\ cp = IdleCache
    /\ calls = NoCalls

NextDevice ==
    \/ \E p \in {"cache_latents", "generate"} : call_set_device_state_preset(p)
    \/ call_encode_images
    \/ call_restore_device_state

SpecDevice == InitDevice /\ [][NextDevice]_vars

\* the population pass alone, over artifacts an earlier run may have left.
\* The pass is one sequential loop : once it has started, its next step is
\* taken
NextPass ==
    \/ setup_buckets_clear
    \/ bucket_item_standard
    \/ setup_buckets_finish
    \/ \E i \in 1..Len(file_list) : earlier_run(i)
    \/ cache_latents_begin
    \/ cache_latents_check
    \/ cache_latents_load
    \/ cache_latents_encode
    \/ cache_latents_end

SpecPass ==
    /\ InitCache
    /\ [][NextPass]_vars
    /\ WF_vars(cache_latents_check \/ cache_latents_load
                   \/ cache_latents_encode \/ cache_latents_end)

\* two processes cache the latents of the same one-item dataset
InitRace ==
    /\ InitCache
    /\ Len(file_list) = 1

NextRace ==
    \/ setup_buckets_clear
    \/ bucket_item_standard
    \/ setup_buckets_finish
    \/ cache_latents_begin
    \/ cache_latents_check
    \/ cache_latents_load
    \/ cache_latents_encode
    \/ cache_latents_end
    \/ peer_begin
    \/ peer_check
    \/ peer_load
    \/ peer_encode
    \/ peer_write_end

SpecRace == InitRace /\ [][NextRace]_vars

----------------------------------------------------------------------------
(* Properties *)

\* the items (1-based) whose index some bucket lists
BucketsOf(i) == {k \in 1..Len(buckets) : i - 1 \in Range(buckets[k].file_list_idx)}

\* the crop rectangle lies inside the enlarged image
GeometryConsistent(item) ==
    /\ item.scale_to_width >= item.crop_x + item.crop_width
    /\ item.scale_to_height >= item.crop_y + item.crop_height

\* the item whose geometry setup_buckets assigned last, and its place
LastIdx == (IF sb.pc = "item" THEN sb.idx - 1 ELSE sb.idx) + 1

LastItem == file_list[LastIdx]

\* setup_poi_bucket returned True for LastItem and its window is still in poi
PoiProcessed == sb.did_process_poi /\ sb.pc \in {"item", "shuffle", "done"}

\* C1 : every item listed in a bucket has the bucket's width and height as
\* its crop_width and crop_height, in every state, also after images were
\* loaded (stated as claimed; load_mask_image breaks it)
C1_BucketItemsHaveBucketCropSize ==
    \A k \in 1..Len(buckets) :
        \A idx \in Range(buckets[k].file_list_idx) :
            /\ file_list[idx + 1].crop_width = buckets[k].width
            /\ file_list[idx + 1].crop_height = buckets[k].height

\* the standard branch bucketed item i : the item has no point of interest
\* for setup_poi_bucket to take, or it is the last one assigned and
\* setup_poi_bucket returned False for it
StandardBucketed(i) ==
    /\ BucketsOf(i) # {}
    /\ \/ ~PoiApplies(file_list[i])
       \/ i = LastIdx /\ ~sb.did_process_poi

\* C2 : an item bucketed by the standard branch has non-negative crop
\* offsets and a crop rectangle inside the enlarged image, in random-crop
\* and in centered-crop mode
C2_StandardGeometryConsistent ==
    \A i \in 1..Len(file_list) :
        StandardBucketed(i)
            => /\ file_list[i].crop_x >= 0
               /\ file_list[i].crop_y >= 0
               /\ GeometryConsistent(file_list[i])

\* C2 witness : a random crop that is not the top-left corner and touches
\* the right edge of the enlarged image
C2_Witness ==
    \E i \in 1..Len(file_list) :
        /\ BucketsOf(i) # {}
        /\ ~PoiApplies(file_list[i])
        /\ dataset_config.random_crop
        /\ file_list[i].crop_x > 0
        /\ file_list[i].crop_x + file_list[i].crop_width = file_list[i].scale_to_width

\* C3 : whenever setup_poi_bucket returned True, the geometry it wrote has
\* the crop rectangle inside the enlarged image
C3_PoiGeometryConsistent == PoiProcessed => GeometryConsistent(LastItem)

\* C3 witness : a successful search whose window starts inside the image,
\* so that the crop is offset on both axes
C3_Witness ==
    /\ PoiProcessed
    /\ LastItem.crop_x > 0
    /\ LastItem.crop_y > 0
    /\ LastItem.scale_to_width > LastItem.crop_width

\* the region of LastItem as setup_poi_bucket scales it (lines 1034-1037)
ScaledRegion ==
    [x |-> ScaleInt(LastItem.poi_x, dataset_config.scale),
     y |-> ScaleInt(LastItem.poi_y, dataset_config.scale),
     width |-> ScaleInt(LastItem.poi_width, dataset_config.scale),
     height |-> ScaleInt(LastItem.poi_height, dataset_config.scale)]

\* the enlargement factor setup_poi_bucket used for the window in poi
LastFactor ==
    max_scale_factor([width |-> LastItem.crop_width, height |-> LastItem.crop_height],
                     poi.poi_width, poi.poi_height)

\* C4 : after a successful setup_poi_bucket the crop rectangle contains the
\* region scaled by the enlargement factor (stated as claimed; the code
\* does not guarantee it)
C4_CropContainsRegion ==
    PoiProcessed =>
        /\ LastItem.crop_x * LastFactor[2] <= ScaledRegion.x * LastFactor[1]
        /\ LastItem.crop_y * LastFactor[2] <= ScaledRegion.y * LastFactor[1]
        /\ (ScaledRegion.x + ScaledRegion.width) * LastFactor[1]
               <= (LastItem.crop_x + LastItem.crop_width) * LastFactor[2]
        /\ (ScaledRegion.y + ScaledRegion.height) * LastFactor[1]
               <= (LastItem.crop_y + LastItem.crop_height) * LastFactor[2]

\* the region of the item the search runs on, as the search scales it
SearchRegion ==
    [x |-> ScaleInt(CurItem.poi_x, dataset_config.scale),
     y |-> ScaleInt(CurItem.poi_y, dataset_config.scale),
     width |-> ScaleInt(CurItem.poi_width, dataset_config.scale),
     height |-> ScaleInt(CurItem.poi_height, dataset_config.scale)]

\* C5 : at every attempt of the search the candidate window lies inside the
\* scaled image and contains the (mirrored) region (stated as claimed; the
\* right and bottom bounds can fall inside the region)
C5_WindowContainsRegion ==
    sb.pc \in {"poi_loop", "poi_found"} =>
        /\ 0 <= poi.poi_x
        /\ 0 <= poi.poi_y
        /\ poi.poi_x + poi.poi_width <= initial_width
        /\ poi.poi_y + poi.poi_height <= initial_height
        /\ poi.poi_x <= SearchRegion.x
        /\ poi.poi_y <= SearchRegion.y
        /\ SearchRegion.x + SearchRegion.width <= poi.poi_x + poi.poi_width
        /\ SearchRegion.y + SearchRegion.height <= poi.poi_y + poi.poi_height

\* C6 : once setup_buckets has built the buckets, every item index
\* 0..N-1 is listed in exactly one bucket and exactly once there
C6_BucketsPartitionItems ==
    sb.pc \in {"shuffle", "done"} =>
        /\ \A i \in 1..Len(file_list) : Cardinality(BucketsOf(i)) = 1
        /\ \A k \in 1..Len(buckets) :
               LET list == buckets[k].file_list_idx
               IN  /\ \A a, b \in 1..Len(list) : a # b => list[a] # list[b]
                   /\ Range(list) \subseteq 0..(Len(file_list) - 1)

\* C6 witness : a later epoch of a point-of-interest dataset, rebuilt, with
\* two items in one bucket
C6_Witness ==
    /\ sb.pc = "done"
    /\ epoch_num > 0
    /\ dataset_config.poi
    /\ \E k \in 1..Len(buckets) : Len(buckets[k].file_list_idx) > 1

RECURSIVE Flatten(_)
Flatten(lists) ==
    IF lists = <<>> THEN <<>> ELSE Head(lists) \o Flatten(Tail(lists))

\* the batches whose indices belong to bucket k, in batch order
BatchesOfBucket(k) ==
    LET FromBucket(batch) == Range(batch) \subseteq Range(buckets[k].file_list_idx)
    IN  SelectSeq(batch_indices, FromBucket)

\* C7 : after build_batch_indices the batches of a bucket are its index
\* list cut into consecutive chunks of batch_size, only the last one
\* possibly shorter; no batch is empty or mixes two buckets
C7_BatchesAreChunks ==
    sb.pc = "done" =>
        /\ \A b \in 1..Len(batch_indices) :
               /\ batch_indices[b] # <<>>
               /\ \E k \in 1..Len(buckets) :
                      Range(batch_indices[b]) \subseteq Range(buckets[k].file_list_idx)
        /\ \A k \in 1..Len(buckets) :
               LET batches == BatchesOfBucket(k)
               IN  /\ Flatten(batches) = buckets[k].file_list_idx
                   /\ \A b \in 1..Len(batches) :
                          b < Len(batches)
                              => Len(batches[b]) = dataset_config.batch_size
                   /\ \A b \in 1..Len(batches) :
                          Len(batches[b]) <= dataset_config.batch_size

\* C7 witness : a bucket cut into a full batch and a shorter last one
C7_Witness ==
    /\ sb.pc = "done"
    /\ \E k \in 1..Len(buckets) :
           /\ Len(BatchesOfBucket(k)) > 1
           /\ Len(BatchesOfBucket(k)[Len(BatchesOfBucket(k))]) < dataset_config.batch_size

\* an item as the constructor leaves it, with the key fields of item
Fresh(item) ==
    [item EXCEPT !._latent_path = NoPath, !._encoded_latent = NoLatent,
                 !.is_latent_cached = FALSE, !.is_caching_to_disk = FALSE,
                 !.is_caching_to_memory = FALSE, !.tensor = NoImage,
                 !.mask_tensor = NoImage]

\* C8 : get_latent_path(recalculate=True) depends on the key fields only.
\* Two items of the dataset with the same path, scale_to_*, crop_*, version
\* and flip fields get the same cache path, and each item gets the path a
\* newly constructed item with its key fields gets, whatever path it has
\* stored and whatever ran on it before.
C8_LatentPathPure ==
    /\ \A i, j \in 1..Len(file_list) :
           (i < j /\ KeyFields(file_list[i]) = KeyFields(file_list[j]))
               => get_latent_path(file_list[i], TRUE) = get_latent_path(file_list[j], TRUE)
    /\ \A i \in 1..Len(file_list) :
           get_latent_path(file_list[i], TRUE) = get_latent_path(Fresh(file_list[i]), TRUE)

\* two items with the same key fields that have different paths stored,
\* one of them derived before load_mask_image changed the geometry
C8_Witness ==
    \E i, j \in 1..Len(file_list) :
        /\ i # j
        /\ KeyFields(file_list[i]) = KeyFields(file_list[j])
        /\ file_list[i].mask_tensor # NoImage
        /\ file_list[i]._latent_path # NoPath
        /\ file_list[j]._latent_path # NoPath
        /\ file_list[i]._latent_path # file_list[j]._latent_path

BaseKeys ==
    {"filename", "scale_to_width", "scale_to_height", "crop_x", "crop_y",
     "crop_width", "crop_height", "latent_space_version", "latent_version"}

\* values a key field is changed to
KeyValues(k) ==
    CASE k = "filename" -> {"a.png", "b.png"}
      [] k = "latent_space_version" -> {"sd1", "sdxl"}
      [] k = "latent_version" -> {1, 2}
      [] k \in {"flip_x", "flip_y"} -> BOOLEAN
      [] OTHER -> 0..MaxDim

KeyOf(item, k) == IF k = "filename" THEN item.path.name ELSE item[k]

WithKey(item, k, v) ==
    IF k = "filename" THEN [item EXCEPT !.path.name = v] ELSE [item EXCEPT ![k] = v]

\* C9 : the record of get_latent_info_dict has the key flip_x (flip_y)
\* exactly when the item's flip_x (flip_y) is true, an item that is not
\* flipped has exactly the nine base keys, and changing any one key field
\* of an item gives a different record and a different hash input.
C9_InfoDictKeys ==
    \A i \in 1..Len(file_list) :
        LET item == file_list[i]
            d == get_latent_info_dict(item)
            hash_input == json_dumps(d)
        IN  /\ ("flip_x" \in DOMAIN d) <=> item.flip_x
            /\ ("flip_y" \in DOMAIN d) <=> item.flip_y
            /\ BaseKeys \subseteq DOMAIN d
            /\ (~item.flip_x /\ ~item.flip_y) => DOMAIN d = BaseKeys
            /\ \A k \in BaseKeys \cup {"flip_x", "flip_y"} :
                   \A v \in KeyValues(k) \ {KeyOf(item, k)} :
                       LET e == get_latent_info_dict(WithKey(item, k, v))
                       IN  /\ e # d
                           /\ json_dumps(e) # hash_input

\* get_latent_path derived the paths of a.png and of its copy flipped in x,
\* which differ in flip_x only, and the two paths differ
C9_Witness ==
    \E i, j \in 1..Len(file_list) :
        /\ ~file_list[i].flip_x
        /\ file_list[j].flip_x
        /\ \A k \in BaseKeys \cup {"flip_y"} :
               KeyOf(file_list[i], k) = KeyOf(file_list[j], k)
        /\ DOMAIN get_latent_info_dict(file_list[i]) = BaseKeys
        /\ file_list[i]._latent_path = get_latent_path(file_list[i], TRUE)
        /\ file_list[j]._latent_path = get_latent_path(file_list[j], TRUE)
        /\ file_list[i]._latent_path # file_list[j]._latent_path

\* the pass is through with item j : past it, or stopped at it by an exception
PassedItem(j) ==
    /\ j \in 1..Len(cp.exists)
    /\ cp.exists[j] # ""
    /\ \/ cp.i > j
       \/ cp.pc \in {"restore", "done", "raised"}

C10_Calls ==
    \A j \in 1..Len(file_list) :
        PassedItem(j) =>
            /\ cp.exists[j] = "hit" =>
                   /\ j \notin Range(calls.image)
                   /\ j \notin Range(calls.encode)
                   /\ j \notin Range(calls.save)
            /\ cp.exists[j] = "miss" =>
                   /\ j \in Range(calls.image)
                   /\ j \in Range(calls.encode) <=>
                          ~(cp.pc = "raised" /\ cp.exc = "load" /\ cp.i = j)
                   /\ j \in Range(calls.save) <=>
                          (j \in Range(calls.encode) /\ dataset_config.cache_latents_to_disk)

\* what the step that tests os.path.exists does
C10_Check ==
    cp.pc = "item" /\ cp'.exists # cp.exists =>
        LET item == file_list'[cp.i]
        IN  /\ item._latent_path = LatentPathOf(item)
            /\ cp'.exists[cp.i] = "hit" <=> (\E f \in disk : f.path = item._latent_path)
            /\ cp'.exists[cp.i] \in {"hit", "miss"}
            /\ cp'.exists[cp.i] = "hit" => disk' = disk /\ calls' = calls

----------------------------------------------------------------------------
(* C11 : a cached item has a latent *)

\* item i has a latent that get_latent returns : resident, or in an artifact
\* at the path get_latent asks for
HasLatent(i) ==
    \/ file_list[i]._encoded_latent # NoLatent
    \/ path_exists(get_latent_path(file_list[i], FALSE), disk)

\* C11 : in every reachable state an item with is_latent_cached set has a
\* resident _encoded_latent or an artifact on disk at its cache path; and when
\* save_file fails the exception leaves the pass at that item, which is not
\* marked cached and has no artifact, whatever the to_disk and to_memory flags
C11_CachedItemHasLatent ==
    /\ \A i \in 1..Len(file_list) : file_list[i].is_latent_cached => HasLatent(i)
    /\ (cp.pc = "raised" /\ cp.exc = "save") =>
           /\ ~file_list[cp.i].is_latent_cached
           /\ file_list[cp.i]._encoded_latent = NoLatent
           /\ ~path_exists(cp.latent_path, disk)
    /\ \A r \in calls.raised : r[1] # "get_latent"

\* the write of the second item's artifact failed after the first item was
\* cached on disk only
C11_Witness ==
    /\ cp.pc = "raised" /\ cp.exc = "save" /\ cp.i = 2
    /\ file_list[1].is_latent_cached
    /\ file_list[1]._encoded_latent = NoLatent
    /\ path_exists(file_list[1]._latent_path, disk)

----------------------------------------------------------------------------
(* C12 : get_latent of a disk-only item reads the path of the current geometry *)

\* C12 : every load_file call get_latent makes for a cached item reads the
\* path derived from the item's geometry as it is at the call, also when a
\* key field changed (load_mask_image swapped the sizes) after the path was
\* last computed
C12_LoadsFromCurrentPath ==
    \A l \in calls.load_file : l.path = l.current

----------------------------------------------------------------------------
(* C13 : the replay record holds the spatial steps of the run *)

\* the steps of a list whose kind is in the spatial set
SpatialOnly(steps) ==
    LET IsSpatial(t) == t.name \in spatial_transforms
    IN  SelectSeq(steps, IsSpatial)

\* the names of a list of steps
Names(steps) == [k \in 1..Len(steps) |-> steps[k].name]

\* C13 : after augment_image the stored replay record lists, in the order
\* of the pipeline that ran and with the parameters it recorded, exactly
\* the steps of that pipeline whose kind is in the spatial set, and no
\* photometric step; the steps it replays are the spatial steps applied to
\* the primary image, and every companion the call went on to load got
\* exactly those steps, with the same parameters
C13_ReplayIsSpatialSubsequence ==
    \A i \in 1..Len(file_list) :
        LET item == file_list[i]
            replay == item.aug_replay_spatial_transforms
            spatial == SpatialOnly(item.tensor.steps)
        IN  (item.has_augmentations /\ item.tensor # NoImage) =>
              /\ ~replay.is_none
              /\ Names(replay.transforms)
                     = SelectSeq(item.aug_transform,
                                 LAMBDA n : n \in spatial_transforms)
              /\ \A k \in 1..Len(replay.transforms) :
                     replay.transforms[k].name \in spatial_transforms
              /\ AppliedSteps(replay.transforms) = spatial
              /\ (calls.raised = {} /\ item.control_tensor # NoImage) =>
                     item.control_tensor.steps = spatial
              /\ (calls.raised = {} /\ item.unconditional_tensor # NoImage) =>
                     item.unconditional_tensor.steps = spatial
              /\ (calls.raised = {} /\ item.mask_tensor # NoImage) =>
                     SpatialOnly(item.mask_tensor.steps) = spatial

\* a pipeline with a photometric and a spatial step ran, both were applied,
\* and the control image was loaded after it
C13_Witness ==
    \E i \in 1..Len(file_list) :
        /\ Len(file_list[i].tensor.steps) = 2
        /\ \E k \in 1..2 : file_list[i].tensor.steps[k].name = "ColorJitter"
        /\ \E k \in 1..2 : file_list[i].tensor.steps[k].name = "HorizontalFlip"
        /\ file_list[i].control_tensor # NoImage
        /\ Len(file_list[i].control_tensor.steps) = 1

----------------------------------------------------------------------------
(* C14 : a point of interest and latent caching exclude each other *)

\* C14 : an item of a dataset with a region of interest is not constructed
\* when latent caching (cache_latents or cache_latents_to_disk) is enabled or
\* caption_ext is not 'json' : the constructor raises, before any geometry
\* is derived, so no item has has_point_of_interest and is_latent_cached
\* both set
C14_PoiExcludesCaching ==
    /\ \A i \in 1..Len(file_list) :
           ~(file_list[i].has_point_of_interest /\ file_list[i].is_latent_cached)
    /\ (/\ dataset_config.poi
        /\ \/ dataset_config.cache_latents
           \/ dataset_config.cache_latents_to_disk
           \/ dataset_config.caption_ext # "json")
           => /\ file_list = <<>>
              /\ sb.pc = "idle"
              /\ buckets = <<>>

\* the constructor of an item with a region of interest raised because the
\* dataset caches latents to disk
C14_Witness ==
    /\ dataset_config.poi
    /\ dataset_config.cache_latents_to_disk
    /\ dataset_config.caption_ext = "json"
    /\ \E r \in calls.raised :
           r[1] = "__init__" /\ r[3] = "Exception: poi is not supported when caching latents"

----------------------------------------------------------------------------
(* C18 : an unknown augmentation fails the construction *)

\* the augmentation spec names an operation albumentations does not have,
\* or a cv2 name cv2 does not have
BadAugmentations(cfg) ==
    \E k \in 1..Len(cfg.augmentations) :
        \/ cfg.augmentations[k].method \notin KnownMethods
        \/ /\ cfg.augmentations[k].enum # ""
           /\ cfg.augmentations[k].enum \notin Cv2Names

\* C18 : when the augmentation spec names an unknown operation or an unknown
\* cv2 enum parameter, no item of the dataset is ever constructed : the
\* constructor raises, once, and no image is loaded or augmented, no
\* bucket set up and no latent cached before or after it
C18_UnknownAugmentationFailsInit ==
    BadAugmentations(dataset_config) =>
        /\ file_list = <<>>
        /\ calls.image = <<>> /\ calls.encode = <<>>
        /\ sb.pc = "idle" /\ cp.pc = "idle"
        /\ Cardinality(calls.raised) <= 1
        /\ \A r \in calls.raised : r[1] = "__init__"

\* the constructor raised on an unknown operation that follows a valid one
C18_Witness ==
    /\ Len(dataset_config.augmentations) = 2
    /\ dataset_config.augmentations[1] = Aug("HorizontalFlip", "")
    /\ dataset_config.augmentations[2] = Aug("Bogus", "")
    /\ <<"__init__", 1, "AssertionError">> \in calls.raised

----------------------------------------------------------------------------
(* C15 : an exhausted point-of-interest search falls back to the standard branch *)

\* the places (bucket, position) at which the buckets bs list index idx
PlacesOf(bs, idx) ==
    {<<k, n>> \in (1..Len(bs)) \X (1..Len(file_list)) :
        n <= Len(bs[k].file_list_idx) /\ bs[k].file_list_idx[n] = idx}

\* the step at which the search gives up : setup_poi_bucket returns False
\* and has written nothing
SearchExhausted ==
    (sb.pc = "poi_loop" /\ sb'.pc = "standard") =>
        /\ poi'.num_loops > MaxLoops
        /\ file_list' = file_list
        /\ buckets' = buckets
        /\ calls'.raised = {}

\* the step after it : the standard branch gives the item the geometry of
\* a bucket chosen for the whole scaled image and lists it in one bucket
FallsBack ==
    (sb.pc = "standard" /\ sb'.pc # "standard") =>
        LET item == file_list'[sb.idx + 1]
        IN  /\ ~sb'.did_process_poi
            /\ calls'.raised = {}
            /\ Cardinality(PlacesOf(buckets', sb.idx)) = 1
            /\ \E b \in get_bucket_for_image_size(
                       ScaleInt(item.width, dataset_config.scale),
                       ScaleInt(item.height, dataset_config.scale),
                       dataset_config.resolution, dataset_config.bucket_tolerance) :
                   /\ item.crop_width = b.width
                   /\ item.crop_height = b.height
                   /\ \A k \in 1..Len(buckets') :
                          sb.idx \in Range(buckets'[k].file_list_idx) =>
                              buckets'[k].width = b.width /\ buckets'[k].height = b.height

\* C15 : when the search of setup_poi_bucket is exhausted it returns False
\* without raising and without changing scale_to_* or crop_*; setup_buckets
\* then takes the standard branch for the item, which ends up in exactly one
\* bucket
C15_ExhaustedSearchFallsBack ==
    [][SearchExhausted /\ FallsBack]_vars

\* the one item of the dataset passed the resolution test of the search, and
\* the standard branch bucketed it
C15_Witness ==
    /\ sb.pc \in {"shuffle", "done"}
    /\ PoiApplies(file_list[1])
    /\ ~sb.did_process_poi
    /\ Cardinality(PlacesOf(buckets, 0)) = 1

----------------------------------------------------------------------------
(* C16 : a primary image that cannot be opened *)

\* C16 : when the primary image cannot be opened, load_and_process_image
\* only logs the failure : no exception leaves it (stated as claimed; the
\* first use of the unbound img raises)
C16_FailedOpenOnlyLogged ==
    \A r \in calls.raised :
        ~(r[1] = "load_and_process_image" /\ r[3] = "UnboundLocalError")

----------------------------------------------------------------------------
(* C17 : an image whose orientation contradicts the geometry *)

\* no loading operation raised on an orientation mismatch
NoMismatchRaised ==
    \A r \in calls.raised :
        r[3] \notin {"ValueError", "load_control_image: ValueError",
                     "load_unconditional_image: ValueError"}

\* a step taken after the buckets are set up leaves scale_to_* and crop_*
\* of every item as they were
GeometryKept ==
    sb.pc = "done" =>
        \A i \in 1..Len(file_list) :
            /\ file_list'[i].scale_to_width = file_list[i].scale_to_width
            /\ file_list'[i].scale_to_height = file_list[i].scale_to_height
            /\ file_list'[i].crop_x = file_list[i].crop_x
            /\ file_list'[i].crop_y = file_list[i].crop_y
            /\ file_list'[i].crop_width = file_list[i].crop_width
            /\ file_list'[i].crop_height = file_list[i].crop_height

\* C17 : on an orientation or size mismatch load_and_process_image,
\* load_control_image, load_mask_image and load_unconditional_image only log
\* and go on : none raises and none changes scale_to_* or crop_* (stated as
\* claimed; three of them raise ValueError and load_mask_image swaps the sizes)
C17_MismatchOnlyLogged ==
    []NoMismatchRaised /\ [][GeometryKept]_vars

----------------------------------------------------------------------------
(* C20 : what the population pass does to the primary image *)

\* C20 : the tensor the pass hands to encode_images (line 1241) was only
\* geometrically processed : no step of the augmentation pipeline was applied
\* to it and augment_image left no replay record for the item (stated as
\* claimed; lines 469-471 run augment_image whenever has_augmentations is
\* set, whatever only_load_latents is)
C20_PassOnlyGeometry ==
    cp.pc = "loaded" =>
        /\ file_list[cp.i].tensor.steps = <<>>
        /\ file_list[cp.i].unaugmented_tensor = NoImage

----------------------------------------------------------------------------
(* C19 : two processes populate the same cache folder *)

\* after both passes of a dataset that caches to disk finished, the artifact
\* at the key of an item and the latents the two processes keep in memory
\* for it are one and the same
ArtifactsAgree ==
    (dataset_config.cache_latents_to_disk /\ cp.pc = "done" /\ peer.pc = "done") =>
        \A i \in 1..Len(file_list) :
            LET kept == {file_list[i]._encoded_latent,
                         peer.file_list[i]._encoded_latent} \ {NoLatent}
                written == {f.latent : f \in {g \in disk :
                                g.path = file_list[i]._latent_path}}
            IN  Cardinality(kept \cup written) <= 1

\* no process called load_file on a file that was only partly written
NoPartLoad ==
    /\ cp.exc # "load_file"
    /\ peer.exc # "load_file"

\* C19 : when two population passes run concurrently over one cache folder,
\* writers to the same key write equivalent content : after both finish the
\* artifact at each key and the latents kept in memory for it are the same,
\* and no pass loads a partly written artifact (stated as claimed;
\* encode_images samples the latent, and save_file writes in place)
C19_ConcurrentWritersAgree ==
    ArtifactsAgree /\ NoPartLoad

----------------------------------------------------------------------------
(* C21 : the bound of the point-of-interest search *)

\* C21 : the search loop of setup_poi_bucket makes at most 100 window
\* attempts before it gives up and returns False : num_loops, which counts
\* the attempts that came out too small, never passes 100 (stated as
\* claimed; the test num_loops > 100 at line 1081 lets a 101st attempt run)
C21_AtMostHundredAttempts ==
    poi.num_loops <= MaxLoops

----------------------------------------------------------------------------
(* C30 : the window of the point-of-interest search from attempt to attempt *)

\* one attempt follows another : the window before it is that of the
\* previous attempt
LaterAttempt ==
    sb.pc = "poi_loop" /\ poi.num_loops > 0 /\ sb'.pc \in {"poi_loop", "poi_found"}

\* C30 : across the attempts of one search the window never shrinks : on
\* each axis the lower bound of an attempt is at most that of the attempt
\* before it and the upper bound is at least that of the attempt before it
\* (stated as claimed; the upper bound is drawn from the new lower bound
\* plus the old extent, so it can fall below the previous upper bound)
C30_WindowNeverShrinks ==
    [][LaterAttempt =>
          /\ poi'.poi_x <= poi.poi_x
          /\ poi'.poi_y <= poi.poi_y
          /\ poi'.poi_x + poi'.poi_width >= poi.poi_x + poi.poi_width
          /\ poi'.poi_y + poi'.poi_height >= poi.poi_y + poi.poi_height]_vars

----------------------------------------------------------------------------
(* C22 : when setup_buckets rebuilds *)

\* the first step of a setup_buckets call : after the first epoch of a
\* dataset without region of interest it returns and has changed nothing,
\* otherwise it clears the buckets and starts the item loop
FirstStep ==
    (sb.pc = "idle" /\ sb'.pc # "idle") =>
        IF epoch_num > 0 /\ ~dataset_config.poi
        THEN /\ sb'.pc = "done"
             /\ buckets' = buckets
             /\ batch_indices' = batch_indices
             /\ file_list' = file_list
        ELSE /\ sb'.pc = "item"
             /\ buckets' = <<>>

\* a call that did not return early ends with every item in the bucket of
\* its crop size and with the batches of these buckets
Rebuilt ==
    (sb.pc = "done" /\ dataset_config.poi) =>
        /\ \A i \in 1..Len(file_list) :
               /\ Cardinality(PlacesOf(buckets, i - 1)) = 1
               /\ \A k \in BucketsOf(i) :
                      /\ buckets[k].width = file_list[i].crop_width
                      /\ buckets[k].height = file_list[i].crop_height
        /\ batch_indices = build_batch_indices(buckets, dataset_config.batch_size)

\* C22 : a setup_buckets call with epoch_num > 0 and no region of interest
\* configured leaves buckets, batch_indices and the scale_to_* / crop_* of
\* every item unchanged; with a region of interest configured every call
\* clears the buckets and recomputes geometry, buckets and batch_indices
C22_RebuildPolicy ==
    []Rebuilt /\ [][FirstStep]_vars

\* a later epoch of a dataset without region of interest : setup_buckets
\* returned early and the buckets of the first epoch are still there
C22_Witness ==
    /\ sb.pc = "done"
    /\ epoch_num > 0
    /\ ~dataset_config.poi
    /\ Len(buckets) > 0
    /\ Len(batch_indices) > 0

----------------------------------------------------------------------------
(* C23 : the life of a replay record *)

\* the step is a load_and_process_image cycle of item i that takes the
\* latent-cached branch (lines 380-390) and loads a companion image
CachedCycleLoads(i) ==
    /\ file_list[i].is_latent_cached
    /\ \E f \in {"control_tensor", "mask_tensor", "unconditional_tensor"} :
           /\ file_list'[i][f] # NoImage
           /\ file_list'[i][f] # file_list[i][f]

\* C23 : a replay record is applied to companion images only within the
\* cycle in which augment_image created it : a cycle of the latent-cached
\* branch, which never runs augment_image, finds no record to replay
\* (stated as claimed; nothing ever resets aug_replay_spatial_transforms)
C23_ReplayWithinCycleOnly ==
    [][\A i \in 1..Len(file_list) :
          CachedCycleLoads(i) => file_list[i].aug_replay_spatial_transforms.is_none]_vars

----------------------------------------------------------------------------
(* C24 : the pixel tensors held during the population pass *)

\* the items that hold a pixel tensor
Holders == {i \in 1..Len(file_list) : file_list[i].tensor # NoImage}

RECURSIVE Increasing(_)
\* the sequence of item numbers grows strictly
Increasing(list) ==
    IF Len(list) < 2
    THEN TRUE
    ELSE list[1] < list[2] /\ Increasing(Tail(list))

\* C24 : during cache_latents_all_latents the items are processed one at a
\* time in file_list order and the pixel tensor of an item is released
\* before the next item starts : at every point of the pass at most one item
\* holds item.tensor, the one the pass is at, and after a normal return no
\* item holds one
C24_OneTensorAtATime ==
    /\ Holders \subseteq {cp.i}
    /\ cp.pc \in {"idle", "item", "miss", "restore", "done"} => Holders = {}
    /\ Increasing(calls.image) /\ Increasing(calls.encode)

\* the pass returned after it loaded, encoded and released two items
C24_Witness ==
    /\ cp.pc = "done"
    /\ Len(calls.encode) > 1
    /\ Holders = {}

----------------------------------------------------------------------------
(* C25 : get_latent and cleanup_latent of a cached item *)

\* C25 : a cached item that caches to memory keeps its resident latent
\* through cleanup_latent, and get_latent returns it without reading disk;
\* for a cached disk-only item cleanup_latent drops the resident latent and
\* the next get_latent reads the artifact at the item's cache path again;
\* get_latent returns None whenever is_latent_cached is false
C25_LatentResidency ==
    \A i \in 1..Len(file_list) :
        LET item == file_list[i]
            cleaned == cleanup_latent_of(item)
        IN  /\ (item.is_latent_cached /\ item.is_caching_to_memory) =>
                   /\ item._encoded_latent # NoLatent
                   /\ cleaned._encoded_latent = item._encoded_latent
                   /\ get_latent(cleaned, disk) =
                          [item |-> item, value |-> item._encoded_latent,
                           read |-> FALSE]
                   /\ \A l \in calls.load_file : l.item # i
            /\ (item.is_latent_cached /\ ~item.is_caching_to_memory) =>
                   /\ cleaned._encoded_latent = NoLatent
                   /\ path_exists(item._latent_path, disk)
                   /\ get_latent(cleaned, disk).read
                   /\ get_latent(cleaned, disk).value =
                          FileAt(item._latent_path, disk).latent
            /\ ~item.is_latent_cached => get_latent(item, disk).value = NoLatent

\* a cached disk-only item whose latent was read from disk by get_latent and
\* dropped again by cleanup_latent
C25_Witness ==
    \E l \in calls.load_file :
        /\ file_list[l.item].is_latent_cached
        /\ ~file_list[l.item].is_caching_to_memory
        /\ file_list[l.item]._encoded_latent = NoLatent

----------------------------------------------------------------------------
(* C26 : the order of the steps of load_mask_image *)

\* the place of a step in the claimed order : inversion, blur, spatial
\* replay, conversion to one channel, intensity remap
StepRank(name) ==
    CASE name = "invert" -> 1
      [] name = "GaussianBlur" -> 2
      [] name \in spatial_transforms -> 3
      [] name = "convert_L" -> 4
      [] name = "value_map" -> 5
      [] OTHER -> 0

----------------------------------------------------------------------------
(* C27 : the population pass visits every item once and terminates *)

\* on a normal return every item is marked cached, has the version of the
\* model type and the cache path of its record with that version, and
\* os.path.exists was asked for each item
AllCached ==
    cp.pc \in {"restore", "done"} =>
        /\ cp.i = Len(file_list)
        /\ \A i \in 1..Len(file_list) :
               /\ cp.exists[i] \in {"hit", "miss"}
               /\ file_list[i].is_latent_cached
               /\ file_list[i].latent_space_version =
                      (IF sd.is_xl THEN "sdxl" ELSE "sd1")
               /\ file_list[i]._latent_path = LatentPathOf(file_list[i])

\* the pass goes from an item to the next one only, and asks os.path.exists
\* for an item once
OneVisit ==
    /\ cp'.i # cp.i => cp'.i = cp.i + 1
    /\ \A i \in 1..Len(cp.exists) :
           cp.exists[i] # "" => (cp'.i >= i /\ cp'.exists[i] = cp.exists[i])

\* C27 : when no step raises, cache_latents_all_latents terminates after
\* visiting every item of file_list exactly once, and on return every item
\* has is_latent_cached = True, its latent_space_version set from the model
\* type and its cache path recomputed with that version
C27_PassVisitsAllAndTerminates ==
    /\ []AllCached
    /\ [][OneVisit]_vars
    /\ (cp.pc = "item") ~> (cp.pc \in {"done", "raised"})

\* the pass over two items of an sdxl model returned : it found the artifact
\* of one item and encoded the other
C27_Witness ==
    /\ cp.pc = "done"
    /\ sd.is_xl
    /\ Len(file_list) = 2
    /\ {cp.exists[1], cp.exists[2]} = {"hit", "miss"}
    /\ \A i \in 1..2 : file_list[i].is_latent_cached

----------------------------------------------------------------------------
(* C28 : a preset followed by restore_device_state *)

\* a step that consumes the saved state
Restored == sd.device_state # NoState /\ sd'.device_state = NoState

----------------------------------------------------------------------------
(* C29 : the device state after the population pass *)

\* the modules are as the 'cache_latents' preset leaves them : applying it
\* again moves nothing
InCachePreset == set_device_state(sd, PresetState(sd, "cache_latents")) = sd

\* C29 : the population pass restores the device state only when it
\* completes : then the modules are back as they were and no state is saved.
\* When loading an image, encoding it or writing the artifact raises, the
\* restore is not run : the modules stay in the 'cache_latents' preset and
\* sd.device_state stays set
C29_RestoreOnlyOnCompletion ==
    /\ cp.pc = "done" =>
           /\ sd.device_state = NoState
           /\ ModuleStates(sd) = calls.preset
    /\ cp.pc = "raised" =>
           /\ sd.device_state # NoState
           /\ sd.device_state = save_device_state(StableDiffusion(sd.is_xl)).device_state
           /\ InCachePreset
           /\ ~ (ModuleStates(sd) = calls.preset)

\* the write of an artifact raised after the unet had been moved to the cpu
C29_Witness ==
    /\ cp.pc = "raised"
    /\ cp.exc = "save"
    /\ calls.preset.unet.device = DeviceTorch
    /\ sd.unet.device = "cpu"

====
